---- MODULE Spec2Model ----
(***************************************************************************)
(* A model of strata-mcp: the JSON-RPC read/handle/respond loop            *)
(* (src/src/server.rs), the tool registry and the category handlers        *)
(* (src/src/tools), the session context (src/src/session.rs) and the       *)
(* error mapping (src/src/error.rs).  The storage engine (the stratadb     *)
(* crate) is an external collaborator: it is modelled by EngineExecute,    *)
(* whose outcome for a command is its nominal result, or any injected      *)
(* failure, or an output of an unexpected shape.                           *)
(***************************************************************************)
EXTENDS Integers, Sequences, FiniteSets, TLC

(***************************************************************************)
(* Bounds of the model.                                                    *)
(***************************************************************************)
\* Longest input (number of lines, blank ones included) that is explored.
MaxLines == 3
\* Longest `items` array of a batch call that is explored.
MaxBatch == 2

(***************************************************************************)
(* Option<T> and Result<T, E>.                                             *)
(***************************************************************************)
None == [some |-> FALSE]
Some(v) == [some |-> TRUE, val |-> v]
Ok(v) == [ok |-> TRUE, val |-> v]
Err(e) == [ok |-> FALSE, err |-> e]

(***************************************************************************)
(* serde_json::Value.  An object is a function from its keys to values, so *)
(* that "key present" is "key in DOMAIN".  Every variant keeps its payload *)
(* under a field name of its own.                                          *)
(***************************************************************************)
JNull == [t |-> "null"]
JBool(b) == [t |-> "bool", b |-> b]
JNum(n) == [t |-> "num", n |-> n]
JStr(s) == [t |-> "str", s |-> s]
JArr(a) == [t |-> "arr", a |-> a]
JObj(m) == [t |-> "obj", m |-> m]
EmptyMap == [k \in {} |-> JNull]

\* Map::get
get(m, k) == IF k \in DOMAIN m THEN Some(m[k]) ELSE None
\* Value::as_str
as_str(v) == IF v.t = "str" THEN Some(v.s) ELSE None
\* Value::as_array
as_array(v) == IF v.t = "arr" THEN Some(v.a) ELSE None
\* Option::and_then(|v| v.as_str())
and_then_as_str(o) == IF o.some THEN as_str(o.val) ELSE None

(***************************************************************************)
(* error.rs: the JSON-RPC codes, McpError and its mapping to a code.       *)
(***************************************************************************)
PARSE_ERROR == -32700
INVALID_REQUEST == -32600
METHOD_NOT_FOUND == -32601
INVALID_PARAMS == -32602
INTERNAL_ERROR == -32603

\* McpError variants
StrataError(code) == [variant |-> "Strata", code |-> code]
UnknownTool(name) == [variant |-> "UnknownTool", name |-> name]
MissingArg(name) == [variant |-> "MissingArg", name |-> name]
InvalidArg(name, reason) == [variant |-> "InvalidArg", name |-> name, reason |-> reason]
BranchNotFound(name) == [variant |-> "BranchNotFound", name |-> name]
Internal(msg) == [variant |-> "Internal", msg |-> msg]

\* McpError::rpc_code, without the inner match on the code of a Strata error.
rpc_code_flat(err) ==
    CASE err.variant = "UnknownTool" -> METHOD_NOT_FOUND
      [] err.variant \in {"MissingArg", "InvalidArg"} -> INVALID_PARAMS
      [] err.variant = "Protocol" -> INVALID_REQUEST
      [] OTHER -> INTERNAL_ERROR

\* McpError::rpc_code
rpc_code(err) ==
    CASE err.variant = "UnknownTool" -> METHOD_NOT_FOUND
      [] err.variant \in {"MissingArg", "InvalidArg"} -> INVALID_PARAMS
      [] err.variant = "Protocol" -> INVALID_REQUEST
      [] err.variant = "Strata" ->
            IF err.code \in {"KEY_NOT_FOUND", "BRANCH_NOT_FOUND", "COLLECTION_NOT_FOUND",
                             "CELL_NOT_FOUND", "DOCUMENT_NOT_FOUND", "STREAM_NOT_FOUND"}
            THEN INVALID_PARAMS
            ELSE IF err.code \in {"INVALID_KEY", "INVALID_PATH", "INVALID_INPUT", "WRONG_TYPE"}
            THEN INVALID_PARAMS
            ELSE INTERNAL_ERROR
      [] OTHER -> INTERNAL_ERROR

\* The prefix of McpError's Display text (the #[error("...")] attributes).
to_string(err) ==
    CASE err.variant = "Strata" -> "strata error"
      [] err.variant = "UnknownTool" -> "unknown tool"
      [] err.variant = "MissingArg" -> "missing required argument"
      [] err.variant = "InvalidArg" -> "invalid argument"
      [] err.variant = "BranchNotFound" -> "branch not found"
      [] err.variant = "Protocol" -> "protocol error"
      [] err.variant = "Io" -> "I/O error"
      [] OTHER -> "internal error"

(***************************************************************************)
(* server.rs: JsonRpcRequest, JsonRpcResponse and their (de)serialisation. *)
(***************************************************************************)
\* JsonRpcResponse::success, with a null result left out.
JsonRpcResponse_success_nonnull(id, result) ==
    [jsonrpc |-> "2.0", id |-> id,
     result |-> IF result = JNull THEN None ELSE Some(result), error |-> None]

\* JsonRpcResponse::success
JsonRpcResponse_success(id, result) ==
    [jsonrpc |-> "2.0", id |-> id, result |-> Some(result), error |-> None]

\* JsonRpcResponse::error, without the id of the request.
JsonRpcResponse_error_anonymous(id, code, message) ==
    [jsonrpc |-> "2.0", id |-> None, result |-> None,
     error |-> Some([code |-> code, message |-> message, data |-> None])]

\* JsonRpcResponse::error
JsonRpcResponse_error(id, code, message) ==
    [jsonrpc |-> "2.0", id |-> id, result |-> None,
     error |-> Some([code |-> code, message |-> message, data |-> None])]

\* JsonRpcResponse::from_error
JsonRpcResponse_from_error(id, err) ==
    JsonRpcResponse_error(id, rpc_code(err), to_string(err))

\* The keys of the JSON object a response is serialised to
\* (skip_serializing_if = "Option::is_none" on id, result and error).
response_keys(r) ==
    {"jsonrpc"}
    \cup (IF r.id.some THEN {"id"} ELSE {})
    \cup (IF r.result.some THEN {"result"} ELSE {})
    \cup (IF r.error.some THEN {"error"} ELSE {})

\* serde_json::to_string(&response), failing on an error response.
to_string_response_failing(r) ==
    IF r.error.some THEN Err("Protocol") ELSE Ok(response_keys(r))

\* serde_json::to_string(&response): a Result, which is Ok for every response
\* (its members are strings, numbers and serde_json values).
to_string_response(r) == Ok(response_keys(r))

\* Deserialising an Option<JsonValue> field: absent or null gives None.
de_option(m, k) ==
    IF k \in DOMAIN m /\ m[k] # JNull THEN Some(m[k]) ELSE None

\* The derived Deserialize of JsonRpcRequest on a JSON object, with the
\* required strings defaulted when they are missing or of another type.
visit_map_default(m) ==
    Ok([jsonrpc |-> IF and_then_as_str(get(m, "jsonrpc")).some THEN m["jsonrpc"].s ELSE "",
        id |-> de_option(m, "id"),
        method |-> IF and_then_as_str(get(m, "method")).some THEN m["method"].s ELSE "",
        params |-> de_option(m, "params")])

\* The derived Deserialize of JsonRpcRequest on a JSON object: jsonrpc and
\* method are required strings, id and params are optional, other members
\* are ignored.
visit_map(m) ==
    IF ~ and_then_as_str(get(m, "jsonrpc")).some THEN Err("jsonrpc")
    ELSE IF ~ and_then_as_str(get(m, "method")).some THEN Err("method")
    ELSE Ok([jsonrpc |-> m["jsonrpc"].s,
             id |-> de_option(m, "id"),
             method |-> m["method"].s,
             params |-> de_option(m, "params")])

\* The derived Deserialize of JsonRpcRequest on a JSON array: the fields in
\* the order of their declaration, params (serde(default)) being optional.
visit_seq(a) ==
    [k \in (IF Len(a) = 4 THEN {"jsonrpc", "id", "method", "params"}
                          ELSE {"jsonrpc", "id", "method"}) |->
        CASE k = "jsonrpc" -> a[1]
          [] k = "id" -> a[2]
          [] k = "method" -> a[3]
          [] k = "params" -> a[4]]

\* serde_json::from_str::<JsonRpcRequest>(line).  `text` is the trimmed line:
\* either [t |-> "garbage"] (not JSON) or a JSON value.  jsonrpc and method are
\* required strings; id and params are optional.
from_str(text) ==
    IF text.t = "obj" THEN visit_map(text.m)
    ELSE IF text.t = "arr" /\ Len(text.a) \in {3, 4} THEN visit_map(visit_seq(text.a))
    ELSE Err("invalid type")

(***************************************************************************)
(* The external engine (stratadb::Session::execute), as far as the core    *)
(* depends on it.  Its state: the set of existing branches and whether the *)
(* engine session has an open transaction.  `pick` is the outcome the      *)
(* engine takes for this call: "ok" is the nominal result of the command,  *)
(* "odd" an output of a shape the caller does not expect, and any other    *)
(* value the code of a StrataError the call fails with.  eng.kv holds the  *)
(* key-value cells that were written, one record per <<branch, space, key>>*)
(* with a value; version numbers and timestamps are not tracked (every     *)
(* version is 1, every timestamp 0).  eng.docs holds the keys of the JSON  *)
(* documents.  A transaction works on the store itself: eng.undo is the    *)
(* store as it was when the open transaction began, which a rollback puts  *)
(* back; eng.undone is what the last rollback discarded and left.  A database that *)
(* was opened with AccessMode::ReadOnly (main.rs, --read-only) fails every *)
(* command that writes with ACCESS_DENIED.                                 *)
(***************************************************************************)
Branches == {"default", "feature", "auto"}
Spaces == {"default", "s1"}
Faults == {"ACCESS_DENIED", "KEY_NOT_FOUND", "INTERNAL_ERROR"}
Picks == {"ok", "odd"} \cup Faults

\* stratadb::Output variants
Unit == [kind |-> "Unit"]
Bool(b) == [kind |-> "Bool", b |-> b]
Version(v) == [kind |-> "Version", v |-> v]
MaybeVersioned(opt) == [kind |-> "MaybeVersioned", opt |-> opt]
BranchWithVersion(id) == [kind |-> "BranchWithVersion", id |-> id]
TxnBegun == [kind |-> "TxnBegun"]
TxnCommitted(v) == [kind |-> "TxnCommitted", v |-> v]
TxnAborted == [kind |-> "TxnAborted"]
Pong == [kind |-> "Pong"]

\* The values of stratadb's branch operations: ForkInfo, BranchDiffResult
\* (without entries) and MergeInfo (without conflicts)
ForkInfo(source, destination) ==
    [kind |-> "ForkInfo", source |-> source, destination |-> destination]
BranchDiffResult(branch_a, branch_b) ==
    [kind |-> "BranchDiffResult", branch_a |-> branch_a, branch_b |-> branch_b]
MergeInfo == [kind |-> "MergeInfo"]

\* Output::Keys and Output::JsonListResult
Keys(keys) == [kind |-> "Keys", keys |-> keys]
JsonListResult(keys, cursor) == [kind |-> "JsonListResult", keys |-> keys, cursor |-> cursor]

\* stratadb::VersionedValue
VersionedValue(value) == [value |-> value, version |-> 1, timestamp |-> 0]

\* The cells of a key-value store kv that a command addresses
cells_of(kv, cmd) ==
    {c \in kv : c.branch = cmd.branch.val /\ c.space = cmd.space.val /\ c.key = cmd.key}

\* The cell a KvPut command writes
cell_put(cmd) ==
    [branch |-> cmd.branch.val, space |-> cmd.space.val, key |-> cmd.key,
     value |-> cmd.value]

\* Strata::cache(): a fresh database, with the default branch only
Strata_cache ==
    [branches |-> {"default"}, txn |-> FALSE, kv |-> {}, docs |-> {},
     undo |-> [kv |-> {}, docs |-> {}], undone |-> [writes |-> {}, kv |-> {}],
     access_mode |-> "ReadWrite"]

\* Strata::open_with(path, AccessMode::ReadOnly) on a directory that was
\* written before: two branches, two keys, two documents
Strata_open_read_only ==
    [branches |-> {"default", "feature"}, txn |-> FALSE,
     kv |-> {[branch |-> "default", space |-> "default", key |-> "test",
              value |-> [vt |-> "String", s |-> "hello"]],
             [branch |-> "default", space |-> "default", key |-> "x",
              value |-> [vt |-> "Int", i |-> 1]]},
     docs |-> {[branch |-> "default", space |-> "default", key |-> "x"],
               [branch |-> "default", space |-> "default", key |-> "y"]},
     undo |-> [kv |-> {}, docs |-> {}], undone |-> [writes |-> {}, kv |-> {}],
     access_mode |-> "ReadOnly"]

\* The commands that write to the database
WriteOps ==
    {"KvPut", "KvDelete", "StateSet", "StateInit", "StateCas", "StateDelete",
     "EventAppend", "JsonSet", "JsonDelete", "VectorUpsert", "VectorDelete",
     "VectorCreateCollection", "VectorDeleteCollection", "VectorBatchUpsert",
     "SpaceCreate", "SpaceDelete", "BranchCreate", "BranchDelete", "BranchFork",
     "BranchMerge", "BranchImport"}

\* The keys of this model in their order, and the prefixes of each
KeyOrder == <<"", "k", "test", "x", "y">>
KeyPrefixes ==
    [key \in {KeyOrder[i] : i \in DOMAIN KeyOrder} |->
        CASE key = "test" -> {"", "t", "te", "tes", "test"}
          [] OTHER -> {"", key}]

\* The keys among `present` that a listing with this prefix and cursor goes
\* over, in order: those that start with the prefix and come after the cursor
listed(present, prefix, cursor) ==
    SelectSeq(KeyOrder,
              LAMBDA key :
                 /\ key \in present
                 /\ prefix.some => prefix.val \in KeyPrefixes[key]
                 /\ cursor.some =>
                       \E i, j \in DOMAIN KeyOrder :
                          KeyOrder[i] = cursor.val /\ KeyOrder[j] = key /\ i < j)

\* The first `limit` of them
page(keys, limit) ==
    IF limit.some /\ limit.val < Len(keys) THEN SubSeq(keys, 1, limit.val) ELSE keys

\* The keys of the documents a command addresses
docs_of(docs, cmd) ==
    {d.key : d \in {c \in docs : c.branch = cmd.branch.val /\ c.space = cmd.space.val}}

\* The nominal outcome of a command: the engine state it leaves and the
\* Result<Output, StrataError> it returns.
EngineNominal(eng, cmd) ==
    CASE cmd.op = "Ping" -> [eng |-> eng, res |-> Ok(Pong)]
      [] cmd.op = "KvList" ->
            [eng |-> eng,
             res |-> Ok(Keys(page(listed({c.key : c \in
                                            {d \in eng.kv : /\ d.branch = cmd.branch.val
                                                            /\ d.space = cmd.space.val}},
                                         cmd.prefix, cmd.cursor),
                                  cmd.limit)))]
      [] cmd.op = "JsonSet" ->
            [eng |-> [eng EXCEPT !.docs = @ \cup {[branch |-> cmd.branch.val,
                                                   space |-> cmd.space.val,
                                                   key |-> cmd.key]}],
             res |-> Ok(Version(1))]
      [] cmd.op = "JsonList" ->
            LET all == listed(docs_of(eng.docs, cmd), cmd.prefix, cmd.cursor)
                keys == page(all, Some(cmd.limit))
            IN [eng |-> eng,
                res |-> Ok(JsonListResult(keys,
                               IF keys # <<>> /\ Len(keys) < Len(all)
                               THEN Some(keys[Len(keys)]) ELSE None))]
      [] cmd.op = "KvPut" ->
            [eng |-> [eng EXCEPT !.kv = (@ \ cells_of(@, cmd)) \cup {cell_put(cmd)}],
             res |-> Ok(Version(1))]
      [] cmd.op = "KvGet" ->
            [eng |-> eng,
             res |-> Ok(MaybeVersioned(
                        IF cells_of(eng.kv, cmd) = {} THEN None
                        ELSE Some(VersionedValue(
                                 (CHOOSE c \in cells_of(eng.kv, cmd) : TRUE).value))))]
      [] cmd.op = "KvDelete" ->
            [eng |-> [eng EXCEPT !.kv = @ \ cells_of(@, cmd)],
             res |-> Ok(Bool(cells_of(eng.kv, cmd) # {}))]
      [] cmd.op = "BranchExists" ->
            [eng |-> eng, res |-> Ok(Bool(cmd.branch \in eng.branches))]
      [] cmd.op = "BranchCreate" ->
            LET id == IF cmd.branch_id.some THEN cmd.branch_id.val ELSE "auto"
            IN IF id \in eng.branches
               THEN [eng |-> eng, res |-> Err("BRANCH_EXISTS")]
               ELSE [eng |-> [eng EXCEPT !.branches = @ \cup {id}],
                     res |-> Ok(BranchWithVersion(id))]
      [] cmd.op = "BranchDelete" ->
            IF cmd.branch = "default"
            THEN [eng |-> eng, res |-> Err("CONSTRAINT_VIOLATION")]
            ELSE IF cmd.branch \notin eng.branches
            THEN [eng |-> eng, res |-> Err("BRANCH_NOT_FOUND")]
            ELSE [eng |-> [eng EXCEPT !.branches = @ \ {cmd.branch},
                                      !.kv = {c \in @ : c.branch # cmd.branch}],
                  res |-> Ok(Unit)]
      [] cmd.op = "TxnBegin" ->
            IF eng.txn
            THEN [eng |-> eng, res |-> Err("TXN_ALREADY_ACTIVE")]
            ELSE [eng |-> [eng EXCEPT !.txn = TRUE,
                                      !.undo = [kv |-> eng.kv, docs |-> eng.docs]],
                  res |-> Ok(TxnBegun)]
      [] cmd.op = "TxnCommit" ->
            IF ~ eng.txn
            THEN [eng |-> eng, res |-> Err("TXN_NOT_ACTIVE")]
            ELSE [eng |-> [eng EXCEPT !.txn = FALSE, !.undo = [kv |-> {}, docs |-> {}]],
                  res |-> Ok(TxnCommitted(1))]
      [] cmd.op = "TxnRollback" ->
            IF ~ eng.txn
            THEN [eng |-> eng, res |-> Err("TXN_NOT_ACTIVE")]
            ELSE [eng |-> [eng EXCEPT !.txn = FALSE,
                                      !.kv = eng.undo.kv,
                                      !.docs = eng.undo.docs,
                                      !.undone = [writes |-> eng.kv \ eng.undo.kv,
                                                  kv |-> eng.undo.kv],
                                      !.undo = [kv |-> {}, docs |-> {}]],
                  res |-> Ok(TxnAborted)]
      [] cmd.op = "TxnIsActive" -> [eng |-> eng, res |-> Ok(Bool(eng.txn))]
      [] cmd.op = "BranchFork" ->
            IF cmd.source \notin eng.branches
            THEN [eng |-> eng, res |-> Err("BRANCH_NOT_FOUND")]
            ELSE IF cmd.destination \in eng.branches
            THEN [eng |-> eng, res |-> Err("BRANCH_EXISTS")]
            ELSE [eng |-> [eng EXCEPT !.branches = @ \cup {cmd.destination},
                                      !.kv = @ \cup {[c EXCEPT !.branch = cmd.destination] :
                                                       c \in {d \in @ : d.branch = cmd.source}}],
                  res |-> Ok(ForkInfo(cmd.source, cmd.destination))]
      [] cmd.op = "BranchDiff" ->
            IF {cmd.branch_a, cmd.branch_b} \subseteq eng.branches
            THEN [eng |-> eng, res |-> Ok(BranchDiffResult(cmd.branch_a, cmd.branch_b))]
            ELSE [eng |-> eng, res |-> Err("BRANCH_NOT_FOUND")]
      [] cmd.op = "BranchMerge" ->
            IF {cmd.source, cmd.target} \subseteq eng.branches
            THEN [eng |-> eng, res |-> Ok(MergeInfo)]
            ELSE [eng |-> eng, res |-> Err("BRANCH_NOT_FOUND")]
      [] OTHER -> [eng |-> eng, res |-> Ok(Unit)]

\* One call of the engine: the access mode is checked before anything else.
\* A commit that fails validation is a transaction that has ended: its
\* writes are discarded and the conflict is reported.  Every other failure
\* leaves the engine as it was.
EngineExecute(eng, cmd, pick) ==
    CASE eng.access_mode = "ReadOnly" /\ cmd.op \in WriteOps ->
            [eng |-> eng, res |-> Err("ACCESS_DENIED")]
      [] pick = "ok" -> EngineNominal(eng, cmd)
      [] pick = "TXN_CONFLICT" /\ cmd.op = "TxnCommit" /\ eng.txn ->
            [eng |-> [eng EXCEPT !.txn = FALSE,
                                 !.kv = eng.undo.kv,
                                 !.docs = eng.undo.docs,
                                 !.undo = [kv |-> {}, docs |-> {}]],
             res |-> Err("TXN_CONFLICT")]
      [] pick = "odd" -> [eng |-> eng, res |-> Ok(Unit)]
      [] OTHER -> [eng |-> eng, res |-> Err(pick)]

(***************************************************************************)
(* session.rs.  A world `w` is what a handler can read and change: the     *)
(* McpSession fields (w.session), the engine behind it (w.engine), the     *)
(* engine calls made while handling the current request with their results *)
(* (w.issued) and the outcomes the engine will take for the calls still to *)
(* come (w.picks).  The operators return the world they leave and the      *)
(* value the Rust function returns.                                        *)
(***************************************************************************)
Ret(w, r) == [w |-> w, r |-> r]

\* McpSession::new
McpSession_new == [branch |-> "default", space |-> "default", in_transaction |-> FALSE]

\* From<StrataError> for McpError, with the code of the engine's error lost.
from_strata_internal(res) == IF res.ok THEN res ELSE Err(Internal("strata error"))

\* From<StrataError> for McpError, applied by `?` to a failed engine call
from_strata(res) == IF res.ok THEN res ELSE Err(StrataError(res.err))

\* The world after an engine call with outcome e = [eng, res], and its result
engine_called(w, cmd, e) ==
    Ret([w EXCEPT !.engine = e.eng,
                  !.issued = Append(@, [cmd |-> cmd, res |-> from_strata(e.res)]),
                  !.picks = Tail(@)],
        from_strata(e.res))

\* self.session.execute(cmd)
session_execute(w, cmd) ==
    engine_called(w, cmd, EngineExecute(w.engine, cmd, Head(w.picks)))

\* The `match &output` of McpSession::execute on the result x of the engine
\* call: transaction state tracking, skipped by `?` when the call failed
track_transaction(x) ==
    IF ~ x.r.ok THEN x
    ELSE CASE x.r.val.kind = "TxnBegun" ->
                 Ret([x.w EXCEPT !.session.in_transaction = TRUE], x.r)
           [] x.r.val.kind \in {"TxnCommitted", "TxnAborted"} ->
                 Ret([x.w EXCEPT !.session.in_transaction = FALSE], x.r)
           [] OTHER -> x

\* Transaction state tracking from the command that was sent.
track_command(x, cmd, flag) ==
    Ret([x.w EXCEPT !.session.in_transaction =
                        CASE cmd.op = "TxnBegin" -> TRUE
                          [] cmd.op \in {"TxnCommit", "TxnRollback"} -> FALSE
                          [] OTHER -> flag],
        x.r)

\* McpSession::execute, with the flag set from the command that was sent.
execute_by_command(w, cmd) ==
    track_command(session_execute(w, cmd), cmd, w.session.in_transaction)

\* The same tracking, with the flag cleared when the call failed.
track_failed(x) ==
    IF ~ x.r.ok THEN Ret([x.w EXCEPT !.session.in_transaction = FALSE], x.r)
    ELSE track_transaction(x)

\* McpSession::execute, with the flag cleared by a failed call.
execute_clearing(w, cmd) == track_failed(session_execute(w, cmd))

\* McpSession::execute
execute(w, cmd) == track_transaction(session_execute(w, cmd))

\* McpSession::switch_branch after the BranchExists call with result x
branch_checked(x, name) ==
    IF ~ x.r.ok THEN x
    ELSE IF x.r.val.kind # "Bool"
    THEN Ret(x.w, Err(Internal("Unexpected output for BranchExists")))
    ELSE IF ~ x.r.val.b THEN Ret(x.w, Err(BranchNotFound(name)))
    ELSE Ret([x.w EXCEPT !.session.branch = name], Ok(Unit))

\* The same, with the branch assigned whatever the engine answers.
branch_unchecked(x, name) ==
    IF ~ x.r.ok THEN x
    ELSE Ret([x.w EXCEPT !.session.branch = name], Ok(Unit))

\* McpSession::switch_branch, with the branch assigned whatever the check says.
switch_branch_unchecked(w, name) ==
    branch_unchecked(session_execute(w, [op |-> "BranchExists", branch |-> name]), name)

\* The same, with the branch assigned on every path.
branch_assigned(x, name) ==
    IF ~ x.r.ok THEN Ret([x.w EXCEPT !.session.branch = name], x.r)
    ELSE IF x.r.val.kind # "Bool"
    THEN Ret([x.w EXCEPT !.session.branch = name],
             Err(Internal("Unexpected output for BranchExists")))
    ELSE IF ~ x.r.val.b
    THEN Ret([x.w EXCEPT !.session.branch = name], Err(BranchNotFound(name)))
    ELSE Ret([x.w EXCEPT !.session.branch = name], Ok(Unit))

\* McpSession::switch_branch, with the branch assigned before the check.
switch_branch_eager(w, name) ==
    branch_assigned(session_execute(w, [op |-> "BranchExists", branch |-> name]), name)

\* McpSession::switch_branch
switch_branch(w, name) ==
    branch_checked(session_execute(w, [op |-> "BranchExists", branch |-> name]), name)

\* McpSession::switch_space, asking the engine about the space first.
switch_space_checked(w, name) ==
    [session_execute(w, [op |-> "SpaceExists", branch |-> Some(w.session.branch),
                         space |-> name]).w
        EXCEPT !.session.space = name]

\* McpSession::switch_space, starting again from the default branch.
switch_space_resetting(w, name) ==
    [w EXCEPT !.session.space = name, !.session.branch = "default"]

\* McpSession::switch_space
switch_space(w, name) == [w EXCEPT !.session.space = name]

\* self.strata.branches().<op>(..).map_err(McpError::from): a call of the
\* database handle, not of the session, whose value has the type the
\* operation declares
branches_call(w, cmd) ==
    engine_called(w, cmd,
                  EngineExecute(w.engine, cmd,
                                IF Head(w.picks) = "odd" THEN "ok" ELSE Head(w.picks)))

\* McpSession::fork_branch, forking the default branch.
fork_branch_of_default(w, destination) ==
    branches_call(w, [op |-> "BranchFork", source |-> "default",
                      destination |-> destination])

\* McpSession::fork_branch
fork_branch(w, destination) ==
    branches_call(w, [op |-> "BranchFork", source |-> w.session.branch,
                      destination |-> destination])

\* McpSession::diff_branches
diff_branches(w, branch_a, branch_b) ==
    branches_call(w, [op |-> "BranchDiff", branch_a |-> branch_a, branch_b |-> branch_b])

\* McpSession::merge_branch
merge_branch(w, source, strategy) ==
    branches_call(w, [op |-> "BranchMerge", source |-> source,
                      target |-> w.session.branch, strategy |-> strategy])

\* McpSession::branch_id, naming the default branch whatever the session is on.
branch_id_default(w) == Some("default")

\* McpSession::branch_id
branch_id(w) == Some(w.session.branch)

\* McpSession::space_id, naming the default space whatever the session is in.
space_id_default(w) == Some("default")

\* McpSession::space_id
space_id(w) == Some(w.session.space)

(***************************************************************************)
(* convert.rs: argument extraction and output flattening.                  *)
(***************************************************************************)
\* The widths of the numbers, scaled down: i64 and u64 have IntBits bits,
\* the significand of an f64 has MantissaBits bits (64 and 53 in the build;
\* what matters is that the significand is shorter than the integers).
IntBits == 8
MantissaBits == 5

RECURSIVE Pow2(_)
Pow2(k) == IF k = 0 THEN 1 ELSE 2 * Pow2(k - 1)

I64_MAX == Pow2(IntBits - 1) - 1
I64_MIN == - Pow2(IntBits - 1)
U64_MAX == Pow2(IntBits) - 1

\* An f64 that is finite: mant * 2^exp, with mant odd, or zero
F64(mant, exp) == [mant |-> mant, exp |-> exp]

\* serde_json::Number: PosInt(u64) and NegInt(i64) are JNum(n), Float(f64)
\* is JFloat(f)
JFloat(f) == [t |-> "num", f |-> f]

\* The f64 m * 2^e with its trailing zero bits moved to the exponent
RECURSIVE normal(_, _)
normal(m, e) ==
    IF m = 0 THEN F64(0, 0)
    ELSE IF m % 2 = 0 THEN normal(m \div 2, e + 1)
    ELSE F64(m, e)

\* The number of low bits of n > 0 that a significand cannot hold
RECURSIVE excess(_)
excess(n) == IF n < Pow2(MantissaBits) THEN 0 ELSE 1 + excess(n \div 2)

\* n without its k low bits as an f64: the significand q, the bits dropped r
\* of `unit`, rounded to the nearest, ties to the even significand
round_half_even(q, r, unit, k) ==
    IF 2 * r > unit \/ (2 * r = unit /\ q % 2 = 1)
    THEN normal(q + 1, k)
    ELSE normal(q, k)

rounded(n, k) ==
    IF k = 0 THEN normal(n, 0)
    ELSE round_half_even(n \div Pow2(k), n % Pow2(k), Pow2(k), k)

\* - f
negated(f) == F64(- f.mant, f.exp)

\* `n as f64` for n >= 0: the nearest f64, ties to the even significand
u64_as_f64(n) == rounded(n, excess(n))

\* `n as f64` for an i64
i64_as_f64(n) == IF n >= 0 THEN u64_as_f64(n) ELSE negated(u64_as_f64(- n))

\* Number::as_i64: a PosInt that fits an i64, or a NegInt
as_i64(v) ==
    IF v.t = "num" /\ "n" \in DOMAIN v /\ v.n <= I64_MAX THEN Some(v.n) ELSE None

\* Number::as_f64: every Number has one (PosInt and NegInt by `as f64`)
as_f64(v) ==
    IF v.t # "num" THEN None
    ELSE IF "n" \in DOMAIN v THEN Some(i64_as_f64(v.n))
    ELSE Some(v.f)

\* stratadb::Value variants
VNull == [vt |-> "Null"]
VBool(b) == [vt |-> "Bool", b |-> b]
VInt(i) == [vt |-> "Int", i |-> i]
VFloat(f) == [vt |-> "Float", f |-> f]
VString(s) == [vt |-> "String", s |-> s]
VArray(a) == [vt |-> "Array", a |-> a]
VObject(m) == [vt |-> "Object", m |-> m]

\* value_to_json (stratadb's Into<serde_json::Value>); the floats here are
\* finite, so that Number::from_f64 gives a number for each
RECURSIVE value_to_json(_)
value_to_json(value) ==
    CASE value.vt = "Null" -> JNull
      [] value.vt = "Bool" -> JBool(value.b)
      [] value.vt = "Int" -> JNum(value.i)
      [] value.vt = "Float" -> JFloat(value.f)
      [] value.vt = "String" -> JStr(value.s)
      [] value.vt = "Array" ->
            JArr([i \in DOMAIN value.a |-> value_to_json(value.a[i])])
      [] value.vt = "Object" ->
            JObj([k \in DOMAIN value.m |-> value_to_json(value.m[k])])

\* versioned_to_json
versioned_to_json(vv) ==
    JObj([value |-> value_to_json(vv.value), version |-> JNum(vv.version),
          timestamp |-> JNum(vv.timestamp)])

\* The JsonValue::Number arm of json_to_value on n.as_i64() and n.as_f64()
number_to_value(i, f) ==
    IF i.some THEN Ok(VInt(i.val))
    ELSE IF f.some THEN Ok(VFloat(f.val))
    ELSE Err(InvalidArg("value", "Number out of range"))

\* `values?` on the collected results of the elements: the first error, or
\* the array of the values
array_to_value(values) ==
    IF \E i \in DOMAIN values : ~ values[i].ok
    THEN values[CHOOSE i \in DOMAIN values :
                   /\ ~ values[i].ok
                   /\ \A j \in 1..(i - 1) : values[j].ok]
    ELSE Ok(VArray([i \in DOMAIN values |-> values[i].val]))

\* `json_to_value(v)?` in the loop over the members: an error of a member, or
\* the object of the values
object_to_value(values) ==
    IF \E k \in DOMAIN values : ~ values[k].ok
    THEN values[CHOOSE k \in DOMAIN values : ~ values[k].ok]
    ELSE Ok(VObject([k \in DOMAIN values |-> values[k].val]))

\* json_to_value
RECURSIVE json_to_value(_)
json_to_value(json) ==
    CASE json.t = "null" -> Ok(VNull)
      [] json.t = "bool" -> Ok(VBool(json.b))
      [] json.t = "num" -> number_to_value(as_i64(json), as_f64(json))
      [] json.t = "str" -> Ok(VString(json.s))
      [] json.t = "arr" ->
            array_to_value([i \in DOMAIN json.a |-> json_to_value(json.a[i])])
      [] json.t = "obj" ->
            object_to_value([k \in DOMAIN json.m |-> json_to_value(json.m[k])])

\* get_string_arg, with the empty string for an argument that is not there.
get_string_arg_defaulting(args, name) ==
    LET s == and_then_as_str(get(args, name))
    IN IF s.some THEN Ok(s.val) ELSE Ok("")

\* get_string_arg
get_string_arg(args, name) ==
    LET s == and_then_as_str(get(args, name))
    IN IF s.some THEN Ok(s.val) ELSE Err(MissingArg(name))

\* get_optional_string
get_optional_string(args, name) == and_then_as_str(get(args, name))

\* get_value_arg
get_value_arg(args, name) ==
    LET json == get(args, name)
    IN IF ~ json.some THEN Err(MissingArg(name)) ELSE json_to_value(json.val)

\* get_optional_bool
get_optional_bool(args, name) ==
    LET v == get(args, name)
    IN IF v.some /\ v.val.t = "bool" THEN Some(v.val.b) ELSE None

\* JsonValue::as_u64: a number that is an integer >= 0
as_u64(v) == IF v.t = "num" /\ "n" \in DOMAIN v /\ v.n >= 0 THEN Some(v.n) ELSE None

\* get_u64_arg
get_u64_arg(args, name) ==
    IF get(args, name).some /\ as_u64(get(args, name).val).some
    THEN Ok(as_u64(get(args, name).val).val)
    ELSE Err(MissingArg(name))

\* get_optional_u64
get_optional_u64(args, name) ==
    IF get(args, name).some THEN as_u64(get(args, name).val) ELSE None

\* get_vector_arg: an array whose elements are all numbers (as_f64)
get_vector_arg(args, name) ==
    IF ~ (get(args, name).some /\ as_array(get(args, name).val).some)
    THEN Err(MissingArg(name))
    ELSE IF \E i \in DOMAIN get(args, name).val.a : ~ as_f64(get(args, name).val.a[i]).some
    THEN Err(InvalidArg(name, "Expected array of numbers"))
    ELSE Ok([i \in DOMAIN get(args, name).val.a |-> as_f64(get(args, name).val.a[i]).val])

\* output_to_json, for the Output variants of this model
output_to_json(output) ==
    CASE output.kind = "Unit" -> JNull
      [] output.kind = "Bool" -> JBool(output.b)
      [] output.kind = "Version" -> JObj([version |-> JNum(output.v)])
      [] output.kind = "MaybeVersioned" ->
            IF output.opt.some THEN versioned_to_json(output.opt.val) ELSE JNull
      [] output.kind = "Keys" ->
            JArr([i \in DOMAIN output.keys |-> JStr(output.keys[i])])
      [] output.kind = "JsonListResult" ->
            IF output.cursor.some
            THEN JObj([keys |-> JArr([i \in DOMAIN output.keys |-> JStr(output.keys[i])]),
                       cursor |-> JStr(output.cursor.val)])
            ELSE JObj([keys |-> JArr([i \in DOMAIN output.keys |-> JStr(output.keys[i])])])
      [] output.kind = "BranchWithVersion" -> JObj([id |-> JStr(output.id)])
      [] output.kind = "TxnBegun" -> JObj([status |-> JStr("begun")])
      [] output.kind = "TxnCommitted" ->
            JObj([status |-> JStr("committed"), version |-> JNum(output.v)])
      [] output.kind = "TxnAborted" -> JObj([status |-> JStr("aborted")])
      [] output.kind = "Pong" -> JObj([pong |-> JBool(TRUE)])
      [] OTHER -> JNull

\* `Ok(output_to_json(output))` on the result x of `session.execute(cmd)?`
result_to_json(x) ==
    IF ~ x.r.ok THEN x ELSE Ret(x.w, Ok(output_to_json(x.r.val)))

\* `let output = session.execute(cmd)?; Ok(output_to_json(output))`
execute_to_json(w, cmd) == result_to_json(execute(w, cmd))

(***************************************************************************)
(* tools/vector.rs and tools/search.rs: the argument parsers of their own. *)
(***************************************************************************)
\* format!("{}[{}]", name, i) and format!("{}[{}].{}", name, i, field), with
\* the index counted from 0
indexed(name, i) == name \o "[" \o ToString(i - 1) \o "]"
indexed_field(name, i, field) == indexed(name, i) \o "." \o field

\* parse_metric
parse_metric(s) ==
    CASE ~ s.some -> Ok("Cosine")
      [] s.val = "cosine" -> Ok("Cosine")
      [] s.val = "euclidean" -> Ok("Euclidean")
      [] s.val \in {"dot_product", "dotproduct"} -> Ok("DotProduct")
      [] OTHER -> Err(InvalidArg("metric", "Unknown metric"))

\* parse_filter_op
parse_filter_op(s) ==
    CASE s \in {"eq", "=", "=="} -> Ok("Eq")
      [] s \in {"ne", "!=", "<>"} -> Ok("Ne")
      [] s \in {"gt", ">"} -> Ok("Gt")
      [] s \in {"gte", ">="} -> Ok("Gte")
      [] s \in {"lt", "<"} -> Ok("Lt")
      [] s \in {"lte", "<="} -> Ok("Lte")
      [] s = "in" -> Ok("In")
      [] s = "contains" -> Ok("Contains")
      [] OTHER -> Err(InvalidArg("filter.op", "Unknown filter operation"))

\* The `for (i, item) in arr.iter().enumerate()` loop of parse_filters
RECURSIVE parse_filters_loop(_, _, _)
parse_filters_loop(arr, i, filters) ==
    IF i > Len(arr) THEN Ok(Some(filters))
    ELSE IF arr[i].t # "obj"
    THEN Err(InvalidArg(indexed("filter", i),
                        "Expected filter object with field, op, and value"))
    ELSE IF ~ and_then_as_str(get(arr[i].m, "field")).some
    THEN Err(InvalidArg(indexed_field("filter", i, "field"), "Missing or invalid field"))
    ELSE IF ~ and_then_as_str(get(arr[i].m, "op")).some
    THEN Err(InvalidArg(indexed_field("filter", i, "op"), "Missing or invalid op"))
    ELSE IF ~ parse_filter_op(arr[i].m["op"].s).ok THEN parse_filter_op(arr[i].m["op"].s)
    ELSE IF ~ get(arr[i].m, "value").some
    THEN Err(InvalidArg(indexed_field("filter", i, "value"), "Missing value"))
    ELSE IF ~ json_to_value(arr[i].m["value"]).ok THEN json_to_value(arr[i].m["value"])
    ELSE parse_filters_loop(arr, i + 1,
             Append(filters, [field |-> arr[i].m["field"].s,
                              op |-> parse_filter_op(arr[i].m["op"].s).val,
                              value |-> json_to_value(arr[i].m["value"]).val]))

\* parse_filters
parse_filters(args) ==
    IF ~ get(args, "filter").some THEN Ok(None)
    ELSE IF get(args, "filter").val.t = "null" THEN Ok(None)
    ELSE IF get(args, "filter").val.t # "arr"
    THEN Err(InvalidArg("filter", "Expected array of filter objects"))
    ELSE IF get(args, "filter").val.a = <<>> THEN Ok(None)
    ELSE parse_filters_loop(get(args, "filter").val.a, 1, <<>>)

\* `match obj.get("metadata")`: null or absent is None, any other value is
\* converted with json_to_value
optional_value(o) ==
    IF ~ o.some THEN Ok(None)
    ELSE IF o.val.t = "null" THEN Ok(None)
    ELSE IF ~ json_to_value(o.val).ok THEN json_to_value(o.val)
    ELSE Ok(Some(json_to_value(o.val).val))

\* The `for (i, item) in arr.iter().enumerate()` loop of parse_batch_entries
RECURSIVE parse_batch_entries_loop(_, _, _)
parse_batch_entries_loop(arr, i, entries) ==
    IF i > Len(arr) THEN Ok(entries)
    ELSE IF arr[i].t # "obj"
    THEN Err(InvalidArg(indexed("entries", i),
                        "Expected object with key, vector, and optional metadata"))
    ELSE IF ~ and_then_as_str(get(arr[i].m, "key")).some
    THEN Err(InvalidArg(indexed_field("entries", i, "key"), "Missing or invalid key"))
    ELSE IF ~ get_vector_arg(arr[i].m, "vector").ok
    THEN IF get_vector_arg(arr[i].m, "vector").err.variant = "MissingArg"
         THEN Err(InvalidArg(indexed_field("entries", i, "vector"),
                             "Missing or invalid vector"))
         ELSE Err(InvalidArg(indexed_field("entries", i, "vector[j]"), "Expected number"))
    ELSE IF ~ optional_value(get(arr[i].m, "metadata")).ok
    THEN optional_value(get(arr[i].m, "metadata"))
    ELSE parse_batch_entries_loop(arr, i + 1,
             Append(entries, [key |-> arr[i].m["key"].s,
                              vector |-> get_vector_arg(arr[i].m, "vector").val,
                              metadata |-> optional_value(get(arr[i].m, "metadata")).val]))

\* parse_batch_entries
parse_batch_entries(args) ==
    IF ~ (get(args, "entries").some /\ as_array(get(args, "entries").val).some)
    THEN Err(MissingArg("entries"))
    ELSE parse_batch_entries_loop(get(args, "entries").val.a, 1, <<>>)

\* The Strings of an array of JSON strings
strings_of(a) == [i \in DOMAIN a |-> a[i].s]

\* get_optional_string_array: the strings of an array, other elements dropped
get_optional_string_array(args, name) ==
    IF get(args, name).some /\ as_array(get(args, name).val).some
    THEN Some(strings_of(SelectSeq(get(args, name).val.a, LAMBDA v : v.t = "str")))
    ELSE None

\* get_optional_time_range: an object with the strings start and end
get_optional_time_range(args) ==
    IF /\ get(args, "time_range").some
       /\ get(args, "time_range").val.t = "obj"
       /\ and_then_as_str(get(get(args, "time_range").val.m, "start")).some
       /\ and_then_as_str(get(get(args, "time_range").val.m, "end")).some
    THEN Some([start |-> get(args, "time_range").val.m["start"].s,
               end |-> get(args, "time_range").val.m["end"].s])
    ELSE None

(***************************************************************************)
(* tools/*.rs: the category handlers.  A tool name is the sequence of the  *)
(* pieces it is made of ("strata_kv_put" is <<"strata_", "kv_", "put">>),  *)
(* so that str::starts_with is the prefix order on sequences.              *)
(***************************************************************************)
\* str::starts_with
starts_with(name, prefix) ==
    Len(prefix) <= Len(name) /\ SubSeq(name, 1, Len(prefix)) = prefix

\* One `let x = <helper>(&args, name)` of a handler, as a Result: `kind`
\* names the helper, the optional ones never fail
take_arg(args, name, kind) ==
    CASE kind = "string" -> get_string_arg(args, name)
      [] kind = "value" -> get_value_arg(args, name)
      [] kind = "u64" -> get_u64_arg(args, name)
      [] kind = "vector" -> get_vector_arg(args, name)
      [] kind = "optional_string" -> Ok(get_optional_string(args, name))
      [] kind = "optional_u64" -> Ok(get_optional_u64(args, name))
      [] kind = "optional_bool" -> Ok(get_optional_bool(args, name))
      [] kind = "bool_or_false" ->
            Ok(IF get_optional_bool(args, name).some
               THEN get_optional_bool(args, name).val ELSE FALSE)
      [] kind = "u64_or_100" ->
            Ok(IF get_optional_u64(args, name).some
               THEN get_optional_u64(args, name).val ELSE 100)
      [] kind = "optional_value" -> optional_value(get(args, name))
      [] kind = "metric" -> parse_metric(get_optional_string(args, name))
      [] kind = "filters" -> parse_filters(args)
      [] kind = "entries" -> parse_batch_entries(args)
      [] kind = "optional_string_array" -> Ok(get_optional_string_array(args, name))
      [] kind = "optional_time_range" -> Ok(get_optional_time_range(args))

\* The command a handler builds: its arguments are taken in the order of
\* `fields` (<<field of the command, name of the argument, kind>>), the first
\* one that fails is returned by `?`; `cmd` holds the fields set so far
RECURSIVE take_args(_, _, _)
arg_taken(args, fields, cmd, r) ==
    IF ~ r.ok THEN r
    ELSE take_args(args, Tail(fields), cmd @@ (Head(fields)[1] :> r.val))

take_args(args, fields, cmd) ==
    IF fields = <<>> THEN Ok(cmd)
    ELSE arg_taken(args, fields, cmd, take_arg(args, Head(fields)[2], Head(fields)[3]))

\* Command::X { .. } without branch or space
bare(op) == [op |-> op]

\* Command::X { branch: session.branch_id(), .. }
on_branch(w, op) == [op |-> op, branch |-> branch_id(w)]

\* Command::X { branch: session.branch_id(), space: session.space_id(), .. }
scoped(w, op) == [op |-> op, branch |-> branch_id(w), space |-> space_id(w)]

\* `let output = session.execute(cmd)?; Ok(output_to_json(output))` on the
\* command cmd, a Result: the handler returned before if it is an error
execute_built(w, cmd) ==
    IF ~ cmd.ok THEN Ret(w, cmd) ELSE execute_to_json(w, cmd.val)

\* A handler that takes its arguments, builds one command and executes it
command(w, args, base, fields) == execute_built(w, take_args(args, fields, base))

\* tools::database::dispatch
database_dispatch(w, name, args) ==
    IF name = <<"strata_", "db_", "ping">> THEN execute_to_json(w, [op |-> "Ping"])
    ELSE IF name = <<"strata_", "db_", "info">> THEN execute_to_json(w, bare("Info"))
    ELSE IF name = <<"strata_", "db_", "flush">> THEN execute_to_json(w, bare("Flush"))
    ELSE IF name = <<"strata_", "db_", "compact">> THEN execute_to_json(w, bare("Compact"))
    ELSE IF name = <<"strata_", "db_", "time_range">>
    THEN execute_to_json(w, on_branch(w, "TimeRange"))
    ELSE Ret(w, Err(UnknownTool(name)))

\* Value::get(key) on an item of a JSON array
value_get(v, k) == IF v.t = "obj" THEN get(v.m, k) ELSE None

\* The `for item in items` loop of strata_kv_put_many: `put_item` is the body
\* up to the engine call, `put_next` the rest of the iteration on its result x
RECURSIVE kv_put_many_loop(_, _, _)
\* The rest of an iteration, with a failed put skipped and the loop going on.
put_next_skipping(x, items, versions) ==
    IF ~ x.r.ok THEN kv_put_many_loop(x.w, Tail(items), versions)
    ELSE kv_put_many_loop(x.w, Tail(items), Append(versions, output_to_json(x.r.val)))

put_next(x, items, versions) ==
    IF ~ x.r.ok THEN x
    ELSE kv_put_many_loop(x.w, Tail(items), Append(versions, output_to_json(x.r.val)))

put_item(w, items, versions, key, value_json) ==
    IF ~ key.some
    THEN Ret(w, Err(InvalidArg("items", "Each item must have a 'key' string field")))
    ELSE IF ~ value_json.some
    THEN Ret(w, Err(InvalidArg("items", "Each item must have a 'value' field")))
    ELSE IF ~ json_to_value(value_json.val).ok
    THEN Ret(w, json_to_value(value_json.val))
    ELSE put_next(execute(w, [op |-> "KvPut", branch |-> branch_id(w),
                              space |-> space_id(w), key |-> key.val,
                              value |-> json_to_value(value_json.val).val]),
                  items, versions)

kv_put_many_loop(w, items, versions) ==
    IF items = <<>> THEN Ret(w, Ok(JArr(versions)))
    ELSE put_item(w, items, versions,
                  and_then_as_str(value_get(Head(items), "key")),
                  value_get(Head(items), "value"))

\* The `for key_value in keys` loop of strata_kv_get_many (op KvGet) and
\* strata_kv_delete_many (op KvDelete): `keys_next` is the rest of the
\* iteration on the result x of the engine call
RECURSIVE kv_keys_loop(_, _, _, _)
\* The rest of an iteration, with the result put in front of the earlier ones.
keys_next_reversed(x, keys, results, op) ==
    IF ~ x.r.ok THEN x
    ELSE kv_keys_loop(x.w, Tail(keys), <<output_to_json(x.r.val)>> \o results, op)

keys_next(x, keys, results, op) ==
    IF ~ x.r.ok THEN x
    ELSE kv_keys_loop(x.w, Tail(keys), Append(results, output_to_json(x.r.val)), op)

kv_keys_loop(w, keys, results, op) ==
    IF keys = <<>> THEN Ret(w, Ok(JArr(results)))
    ELSE IF ~ as_str(Head(keys)).some
    THEN Ret(w, Err(InvalidArg("keys", "Keys must be strings")))
    ELSE keys_next(execute(w, [op |-> op, branch |-> branch_id(w),
                               space |-> space_id(w), key |-> Head(keys).s]),
                   keys, results, op)

\* strata_kv_get_many and strata_kv_delete_many
kv_many(w, args, op) ==
    IF ~ (get(args, "keys").some /\ as_array(get(args, "keys").val).some)
    THEN Ret(w, Err(MissingArg("keys")))
    ELSE kv_keys_loop(w, get(args, "keys").val.a, <<>>, op)

\* tools::kv::dispatch
kv_dispatch(w, name, args) ==
    CASE name = <<"strata_", "kv_", "put">> ->
            LET key == get_string_arg(args, "key")
                value == get_value_arg(args, "value")
            IN IF ~ key.ok THEN Ret(w, key)
               ELSE IF ~ value.ok THEN Ret(w, value)
               ELSE execute_to_json(w, [op |-> "KvPut", branch |-> branch_id(w),
                                        space |-> space_id(w), key |-> key.val,
                                        value |-> value.val])
      [] name = <<"strata_", "kv_", "get">> ->
            LET key == get_string_arg(args, "key")
            IN IF ~ key.ok THEN Ret(w, key)
               ELSE execute_to_json(w, [op |-> "KvGet", branch |-> branch_id(w),
                                        space |-> space_id(w), key |-> key.val])
      [] name = <<"strata_", "kv_", "put_many">> ->
            LET items == IF get(args, "items").some
                         THEN as_array(get(args, "items").val) ELSE None
            IN IF ~ items.some THEN Ret(w, Err(MissingArg("items")))
               ELSE kv_put_many_loop(w, items.val, <<>>)
      [] name = <<"strata_", "kv_", "delete">> ->
            command(w, args, scoped(w, "KvDelete"), <<<<"key", "key", "string">>>>)
      [] name = <<"strata_", "kv_", "list">> ->
            command(w, args, scoped(w, "KvList"),
                    <<<<"prefix", "prefix", "optional_string">>,
                      <<"cursor", "cursor", "optional_string">>,
                      <<"limit", "limit", "optional_u64">>>>)
      [] name = <<"strata_", "kv_", "history">> ->
            command(w, args, scoped(w, "KvGetv"), <<<<"key", "key", "string">>>>)
      [] name = <<"strata_", "kv_", "get_many">> -> kv_many(w, args, "KvGet")
      [] name = <<"strata_", "kv_", "delete_many">> -> kv_many(w, args, "KvDelete")
      [] OTHER -> Ret(w, Err(UnknownTool(name)))

\* tools::state::dispatch
state_dispatch(w, name, args) ==
    CASE name = <<"strata_", "state_", "set">> ->
            command(w, args, scoped(w, "StateSet"),
                    <<<<"cell", "cell", "string">>, <<"value", "value", "value">>>>)
      [] name = <<"strata_", "state_", "get">> ->
            command(w, args, scoped(w, "StateGet"),
                    <<<<"cell", "cell", "string">>, <<"as_of", "as_of", "optional_u64">>>>)
      [] name = <<"strata_", "state_", "delete">> ->
            command(w, args, scoped(w, "StateDelete"), <<<<"cell", "cell", "string">>>>)
      [] name = <<"strata_", "state_", "init">> ->
            command(w, args, scoped(w, "StateInit"),
                    <<<<"cell", "cell", "string">>, <<"value", "value", "value">>>>)
      [] name = <<"strata_", "state_", "cas">> ->
            command(w, args, scoped(w, "StateCas"),
                    <<<<"cell", "cell", "string">>, <<"value", "value", "value">>,
                      <<"expected_counter", "expected_counter", "optional_u64">>>>)
      [] name = <<"strata_", "state_", "list">> ->
            command(w, args, scoped(w, "StateList"),
                    <<<<"prefix", "prefix", "optional_string">>,
                      <<"as_of", "as_of", "optional_u64">>>>)
      [] name = <<"strata_", "state_", "history">> ->
            command(w, args, scoped(w, "StateGetv"),
                    <<<<"cell", "cell", "string">>, <<"as_of", "as_of", "optional_u64">>>>)
      [] OTHER -> Ret(w, Err(UnknownTool(name)))

\* tools::event::dispatch
event_dispatch(w, name, args) ==
    CASE name = <<"strata_", "event_", "append">> ->
            command(w, args, scoped(w, "EventAppend"),
                    <<<<"event_type", "event_type", "string">>,
                      <<"payload", "payload", "value">>>>)
      [] name = <<"strata_", "event_", "get">> ->
            command(w, args, scoped(w, "EventGet"), <<<<"sequence", "sequence", "u64">>>>)
      [] name = <<"strata_", "event_", "list">> ->
            command(w, args, scoped(w, "EventGetByType"),
                    <<<<"event_type", "event_type", "string">>,
                      <<"limit", "limit", "optional_u64">>,
                      <<"after_sequence", "after_sequence", "optional_u64">>>>)
      [] name = <<"strata_", "event_", "len">> -> execute_to_json(w, scoped(w, "EventLen"))
      [] OTHER -> Ret(w, Err(UnknownTool(name)))

\* tools::json::dispatch
json_dispatch(w, name, args) ==
    CASE name = <<"strata_", "json_", "set">> ->
            command(w, args, scoped(w, "JsonSet"),
                    <<<<"key", "key", "string">>, <<"path", "path", "string">>,
                      <<"value", "value", "value">>>>)
      [] name = <<"strata_", "json_", "get">> ->
            command(w, args, scoped(w, "JsonGet"),
                    <<<<"key", "key", "string">>, <<"path", "path", "string">>>>)
      [] name = <<"strata_", "json_", "delete">> ->
            command(w, args, scoped(w, "JsonDelete"),
                    <<<<"key", "key", "string">>, <<"path", "path", "string">>>>)
      [] name = <<"strata_", "json_", "list">> ->
            command(w, args, scoped(w, "JsonList"),
                    <<<<"prefix", "prefix", "optional_string">>,
                      <<"cursor", "cursor", "optional_string">>,
                      <<"limit", "limit", "u64_or_100">>>>)
      [] name = <<"strata_", "json_", "history">> ->
            command(w, args, scoped(w, "JsonGetv"), <<<<"key", "key", "string">>>>)
      [] OTHER -> Ret(w, Err(UnknownTool(name)))

\* tools::space::dispatch, without the arm of strata_space_delete.
space_dispatch_partial(w, name, args) ==
    CASE name = <<"strata_", "space_", "list">> ->
            execute_to_json(w, on_branch(w, "SpaceList"))
      [] name = <<"strata_", "space_", "create">> ->
            command(w, args, on_branch(w, "SpaceCreate"), <<<<"space", "space", "string">>>>)
      [] name = <<"strata_", "space_", "switch">> ->
            LET space == get_string_arg(args, "space")
            IN IF ~ space.ok THEN Ret(w, space)
               ELSE Ret(switch_space(w, space.val),
                        Ok(JObj([switched |-> JBool(TRUE), space |-> JStr(space.val)])))
      [] OTHER -> Ret(w, Err(UnknownTool(name)))

\* tools::space::dispatch
space_dispatch(w, name, args) ==
    CASE name = <<"strata_", "space_", "list">> ->
            execute_to_json(w, on_branch(w, "SpaceList"))
      [] name = <<"strata_", "space_", "create">> ->
            command(w, args, on_branch(w, "SpaceCreate"), <<<<"space", "space", "string">>>>)
      [] name = <<"strata_", "space_", "delete">> ->
            command(w, args, on_branch(w, "SpaceDelete"),
                    <<<<"space", "space", "string">>, <<"force", "force", "bool_or_false">>>>)
      [] name = <<"strata_", "space_", "switch">> ->
            LET space == get_string_arg(args, "space")
            IN IF ~ space.ok THEN Ret(w, space)
               ELSE Ret(switch_space(w, space.val),
                        Ok(JObj([switched |-> JBool(TRUE), space |-> JStr(space.val)])))
      [] OTHER -> Ret(w, Err(UnknownTool(name)))

\* The result of strata_branch_switch on the result x of `switch_branch(&branch)?`
branch_switched(x, branch) ==
    IF ~ x.r.ok THEN x
    ELSE Ret(x.w, Ok(JObj([switched |-> JBool(TRUE), branch |-> JStr(branch)])))

\* The result of strata_branch_fork on the result x of `fork_branch(..)?`
branch_forked(x) ==
    IF ~ x.r.ok THEN x
    ELSE Ret(x.w, Ok(JObj([source |-> JStr(x.r.val.source),
                           destination |-> JStr(x.r.val.destination),
                           keys_copied |-> JNum(0)])))

\* The result of strata_branch_diff on the result x of `diff_branches(..)?`
branch_diffed(x) ==
    IF ~ x.r.ok THEN x
    ELSE Ret(x.w, Ok(JObj([branch_a |-> JStr(x.r.val.branch_a),
                           branch_b |-> JStr(x.r.val.branch_b),
                           summary |-> JObj([total_added |-> JNum(0),
                                             total_removed |-> JNum(0),
                                             total_modified |-> JNum(0)]),
                           spaces |-> JArr(<<>>)])))

\* The result of strata_branch_merge on the result x of `merge_branch(..)?`
branch_merged(x) ==
    IF ~ x.r.ok THEN x
    ELSE Ret(x.w, Ok(JObj([keys_applied |-> JNum(0), spaces_merged |-> JNum(0),
                           conflicts |-> JArr(<<>>)])))

\* The `match strategy_str.as_deref()` of strata_branch_merge
merge_strategy(strategy_str) ==
    CASE ~ strategy_str.some -> Ok("LastWriterWins")
      [] strategy_str.val = "strict" -> Ok("Strict")
      [] strategy_str.val = "last_writer_wins" -> Ok("LastWriterWins")
      [] OTHER -> Err(InvalidArg("strategy", "Unknown merge strategy"))

\* tools::branch::dispatch
branch_dispatch(w, name, args) ==
    CASE name = <<"strata_", "branch_", "create">> ->
            execute_to_json(w, [op |-> "BranchCreate",
                                branch_id |-> get_optional_string(args, "branch_id")])
      [] name = <<"strata_", "branch_", "exists">> ->
            LET branch == get_string_arg(args, "branch")
            IN IF ~ branch.ok THEN Ret(w, branch)
               ELSE execute_to_json(w, [op |-> "BranchExists", branch |-> branch.val])
      [] name = <<"strata_", "branch_", "delete">> ->
            LET branch == get_string_arg(args, "branch")
            IN IF ~ branch.ok THEN Ret(w, branch)
               ELSE execute_to_json(w, [op |-> "BranchDelete", branch |-> branch.val])
      [] name = <<"strata_", "branch_", "switch">> ->
            LET branch == get_string_arg(args, "branch")
            IN IF ~ branch.ok THEN Ret(w, branch)
               ELSE branch_switched(switch_branch(w, branch.val), branch.val)
      [] name = <<"strata_", "branch_", "get">> ->
            command(w, args, bare("BranchGet"), <<<<"branch", "branch", "string">>>>)
      [] name = <<"strata_", "branch_", "list">> ->
            command(w, args, bare("BranchList"),
                    <<<<"limit", "limit", "optional_u64">>,
                      <<"offset", "offset", "optional_u64">>>>)
      [] name = <<"strata_", "branch_", "fork">> ->
            IF ~ get_string_arg(args, "destination").ok
            THEN Ret(w, get_string_arg(args, "destination"))
            ELSE branch_forked(fork_branch(w, get_string_arg(args, "destination").val))
      [] name = <<"strata_", "branch_", "diff">> ->
            IF ~ get_string_arg(args, "branch_a").ok
            THEN Ret(w, get_string_arg(args, "branch_a"))
            ELSE IF ~ get_string_arg(args, "branch_b").ok
            THEN Ret(w, get_string_arg(args, "branch_b"))
            ELSE branch_diffed(diff_branches(w, get_string_arg(args, "branch_a").val,
                                             get_string_arg(args, "branch_b").val))
      [] name = <<"strata_", "branch_", "merge">> ->
            IF ~ get_string_arg(args, "source").ok
            THEN Ret(w, get_string_arg(args, "source"))
            ELSE IF ~ merge_strategy(get_optional_string(args, "strategy")).ok
            THEN Ret(w, merge_strategy(get_optional_string(args, "strategy")))
            ELSE branch_merged(merge_branch(w, get_string_arg(args, "source").val,
                                   merge_strategy(get_optional_string(args, "strategy")).val))
      [] OTHER -> Ret(w, Err(UnknownTool(name)))

\* tools::txn::dispatch, with strata_txn_rollback sending the commit command.
txn_dispatch_committing(w, name, args) ==
    CASE name = <<"strata_", "txn_", "begin">> ->
            LET ro == get_optional_bool(args, "read_only")
                read_only == IF ro.some THEN ro.val ELSE FALSE
            IN execute_to_json(w, [op |-> "TxnBegin", branch |-> branch_id(w),
                                   read_only |-> read_only])
      [] name = <<"strata_", "txn_", "commit">> -> execute_to_json(w, [op |-> "TxnCommit"])
      [] name = <<"strata_", "txn_", "rollback">> -> execute_to_json(w, [op |-> "TxnCommit"])
      [] name = <<"strata_", "txn_", "active">> -> execute_to_json(w, [op |-> "TxnIsActive"])
      [] name = <<"strata_", "txn_", "info">> -> execute_to_json(w, bare("TxnInfo"))
      [] OTHER -> Ret(w, Err(UnknownTool(name)))

\* tools::txn::dispatch
txn_dispatch(w, name, args) ==
    CASE name = <<"strata_", "txn_", "begin">> ->
            LET ro == get_optional_bool(args, "read_only")
                read_only == IF ro.some THEN ro.val ELSE FALSE
            IN execute_to_json(w, [op |-> "TxnBegin", branch |-> branch_id(w),
                                   read_only |-> read_only])
      [] name = <<"strata_", "txn_", "commit">> -> execute_to_json(w, [op |-> "TxnCommit"])
      [] name = <<"strata_", "txn_", "rollback">> -> execute_to_json(w, [op |-> "TxnRollback"])
      [] name = <<"strata_", "txn_", "active">> -> execute_to_json(w, [op |-> "TxnIsActive"])
      [] name = <<"strata_", "txn_", "info">> -> execute_to_json(w, bare("TxnInfo"))
      [] OTHER -> Ret(w, Err(UnknownTool(name)))

\* tools::vector::dispatch
vector_dispatch(w, name, args) ==
    CASE name = <<"strata_", "vector_", "upsert">> ->
            command(w, args, scoped(w, "VectorUpsert"),
                    <<<<"collection", "collection", "string">>, <<"key", "key", "string">>,
                      <<"vector", "vector", "vector">>,
                      <<"metadata", "metadata", "optional_value">>>>)
      [] name = <<"strata_", "vector_", "get">> ->
            command(w, args, scoped(w, "VectorGet"),
                    <<<<"collection", "collection", "string">>, <<"key", "key", "string">>,
                      <<"as_of", "as_of", "optional_u64">>>>)
      [] name = <<"strata_", "vector_", "delete">> ->
            command(w, args, scoped(w, "VectorDelete"),
                    <<<<"collection", "collection", "string">>, <<"key", "key", "string">>>>)
      [] name = <<"strata_", "vector_", "search">> ->
            command(w, args, scoped(w, "VectorSearch"),
                    <<<<"collection", "collection", "string">>, <<"query", "query", "vector">>,
                      <<"k", "k", "u64">>, <<"filter", "filter", "filters">>,
                      <<"metric", "metric", "metric">>, <<"as_of", "as_of", "optional_u64">>>>)
      [] name = <<"strata_", "vector_", "create_collection">> ->
            command(w, args, scoped(w, "VectorCreateCollection"),
                    <<<<"collection", "collection", "string">>,
                      <<"dimension", "dimension", "u64">>, <<"metric", "metric", "metric">>>>)
      [] name = <<"strata_", "vector_", "delete_collection">> ->
            command(w, args, scoped(w, "VectorDeleteCollection"),
                    <<<<"collection", "collection", "string">>>>)
      [] name = <<"strata_", "vector_", "list_collections">> ->
            execute_to_json(w, scoped(w, "VectorListCollections"))
      [] name = <<"strata_", "vector_", "stats">> ->
            command(w, args, scoped(w, "VectorCollectionStats"),
                    <<<<"collection", "collection", "string">>>>)
      [] name = <<"strata_", "vector_", "batch_upsert">> ->
            command(w, args, scoped(w, "VectorBatchUpsert"),
                    <<<<"collection", "collection", "string">>,
                      <<"entries", "entries", "entries">>>>)
      [] OTHER -> Ret(w, Err(UnknownTool(name)))

\* tools::search::dispatch; the fields of the SearchQuery are those of the
\* command
search_dispatch(w, name, args) ==
    CASE name = <<"strata_", "search">> ->
            command(w, args, scoped(w, "Search"),
                    <<<<"query", "query", "string">>, <<"k", "k", "optional_u64">>,
                      <<"primitives", "primitives", "optional_string_array">>,
                      <<"time_range", "time_range", "optional_time_range">>,
                      <<"mode", "mode", "optional_string">>,
                      <<"expand", "expand", "optional_bool">>,
                      <<"rerank", "rerank", "optional_bool">>>>)
      [] OTHER -> Ret(w, Err(UnknownTool(name)))

\* `session.execute(cmd)?; Ok(json!({ "status": "ok" }))` on the command cmd,
\* a Result, and on the result x of the call
status_ok(x) == IF ~ x.r.ok THEN x ELSE Ret(x.w, Ok(JObj([status |-> JStr("ok")])))
execute_status(w, cmd) == IF ~ cmd.ok THEN Ret(w, cmd) ELSE status_ok(execute(w, cmd.val))

\* tools::config::dispatch
config_dispatch(w, name, args) ==
    CASE name = <<"strata_", "configure_", "model">> ->
            execute_status(w, take_args(args,
                <<<<"endpoint", "endpoint", "string">>, <<"model", "model", "string">>,
                  <<"api_key", "api_key", "optional_string">>,
                  <<"timeout_ms", "timeout_ms", "optional_u64">>>>,
                bare("ConfigureModel")))
      [] OTHER -> Ret(w, Err(UnknownTool(name)))

\* tools::bundle::dispatch
bundle_dispatch(w, name, args) ==
    CASE name = <<"strata_", "bundle_", "export">> ->
            command(w, args, bare("BranchExport"),
                    <<<<"branch_id", "branch", "string">>, <<"path", "path", "string">>>>)
      [] name = <<"strata_", "bundle_", "import">> ->
            command(w, args, bare("BranchImport"), <<<<"path", "path", "string">>>>)
      [] name = <<"strata_", "bundle_", "validate">> ->
            command(w, args, bare("BranchBundleValidate"), <<<<"path", "path", "string">>>>)
      [] OTHER -> Ret(w, Err(UnknownTool(name)))

\* tools::retention::dispatch: strata_retention_apply without arguments
\* executes one command and returns its output
retention_dispatch(w, name, args) ==
    CASE name = <<"strata_", "retention_", "apply">> ->
            execute_to_json(w, on_branch(w, "RetentionApply"))
      [] OTHER -> Ret(w, Err(UnknownTool(name)))

\* ToolRegistry::dispatch, with the names under strata_space_ handed to the
\* state handler.
ToolRegistry_dispatch_misrouted(w, name, args) ==
    IF starts_with(name, <<"strata_", "db_">>) THEN database_dispatch(w, name, args)
    ELSE IF starts_with(name, <<"strata_", "kv_">>) THEN kv_dispatch(w, name, args)
    ELSE IF starts_with(name, <<"strata_", "state_">>) THEN state_dispatch(w, name, args)
    ELSE IF starts_with(name, <<"strata_", "event_">>) THEN event_dispatch(w, name, args)
    ELSE IF starts_with(name, <<"strata_", "json_">>) THEN json_dispatch(w, name, args)
    ELSE IF starts_with(name, <<"strata_", "space_">>) THEN state_dispatch(w, name, args)
    ELSE IF starts_with(name, <<"strata_", "branch_">>) THEN branch_dispatch(w, name, args)
    ELSE IF starts_with(name, <<"strata_", "vector_">>) THEN vector_dispatch(w, name, args)
    ELSE IF starts_with(name, <<"strata_", "txn_">>) THEN txn_dispatch(w, name, args)
    ELSE IF starts_with(name, <<"strata_", "search">>) THEN search_dispatch(w, name, args)
    ELSE IF starts_with(name, <<"strata_", "configure_">>) THEN config_dispatch(w, name, args)
    ELSE IF starts_with(name, <<"strata_", "bundle_">>) THEN bundle_dispatch(w, name, args)
    ELSE IF starts_with(name, <<"strata_", "retention_">>)
    THEN retention_dispatch(w, name, args)
    ELSE Ret(w, Err(UnknownTool(name)))

\* ToolRegistry::dispatch, with a name under no prefix taken for a ping.
ToolRegistry_dispatch_fallback(w, name, args) ==
    IF starts_with(name, <<"strata_", "db_">>) THEN database_dispatch(w, name, args)
    ELSE IF starts_with(name, <<"strata_", "kv_">>) THEN kv_dispatch(w, name, args)
    ELSE IF starts_with(name, <<"strata_", "state_">>) THEN state_dispatch(w, name, args)
    ELSE IF starts_with(name, <<"strata_", "event_">>) THEN event_dispatch(w, name, args)
    ELSE IF starts_with(name, <<"strata_", "json_">>) THEN json_dispatch(w, name, args)
    ELSE IF starts_with(name, <<"strata_", "space_">>) THEN space_dispatch(w, name, args)
    ELSE IF starts_with(name, <<"strata_", "branch_">>) THEN branch_dispatch(w, name, args)
    ELSE IF starts_with(name, <<"strata_", "vector_">>) THEN vector_dispatch(w, name, args)
    ELSE IF starts_with(name, <<"strata_", "txn_">>) THEN txn_dispatch(w, name, args)
    ELSE IF starts_with(name, <<"strata_", "search">>) THEN search_dispatch(w, name, args)
    ELSE IF starts_with(name, <<"strata_", "configure_">>) THEN config_dispatch(w, name, args)
    ELSE IF starts_with(name, <<"strata_", "bundle_">>) THEN bundle_dispatch(w, name, args)
    ELSE IF starts_with(name, <<"strata_", "retention_">>)
    THEN retention_dispatch(w, name, args)
    ELSE execute_to_json(w, bare("Ping"))

\* ToolRegistry::dispatch
ToolRegistry_dispatch(w, name, args) ==
    IF starts_with(name, <<"strata_", "db_">>) THEN database_dispatch(w, name, args)
    ELSE IF starts_with(name, <<"strata_", "kv_">>) THEN kv_dispatch(w, name, args)
    ELSE IF starts_with(name, <<"strata_", "state_">>) THEN state_dispatch(w, name, args)
    ELSE IF starts_with(name, <<"strata_", "event_">>) THEN event_dispatch(w, name, args)
    ELSE IF starts_with(name, <<"strata_", "json_">>) THEN json_dispatch(w, name, args)
    ELSE IF starts_with(name, <<"strata_", "space_">>) THEN space_dispatch(w, name, args)
    ELSE IF starts_with(name, <<"strata_", "branch_">>) THEN branch_dispatch(w, name, args)
    ELSE IF starts_with(name, <<"strata_", "vector_">>) THEN vector_dispatch(w, name, args)
    ELSE IF starts_with(name, <<"strata_", "txn_">>) THEN txn_dispatch(w, name, args)
    ELSE IF starts_with(name, <<"strata_", "search">>) THEN search_dispatch(w, name, args)
    ELSE IF starts_with(name, <<"strata_", "configure_">>) THEN config_dispatch(w, name, args)
    ELSE IF starts_with(name, <<"strata_", "bundle_">>) THEN bundle_dispatch(w, name, args)
    ELSE IF starts_with(name, <<"strata_", "retention_">>)
    THEN retention_dispatch(w, name, args)
    ELSE Ret(w, Err(UnknownTool(name)))

(***************************************************************************)
(* server.rs: McpServer.  A server value `s` is [initialized, w]: the      *)
(* initialized flag and the world of its session.  Each handler returns    *)
(* the server it leaves and the response.                                  *)
(***************************************************************************)
Handled(s, resp) == [s |-> s, resp |-> resp]

\* ToolDef::new
ToolDef_new_blank(name, description, input_schema) ==
    [name |-> name, description |-> "", inputSchema |-> input_schema]

\* ToolDef::new
ToolDef_new(name, description, input_schema) ==
    [name |-> name, description |-> description, inputSchema |-> input_schema]

\* schema!(@type ty)
schema_type(ty) ==
    CASE ty = "any" -> JObj(EmptyMap)
      [] ty = "array_number" ->
            JObj([type |-> JStr("array"), items |-> JObj([type |-> JStr("number")])])
      [] ty = "array_string" ->
            JObj([type |-> JStr("array"), items |-> JObj([type |-> JStr("string")])])
      [] ty = "array_object" ->
            JObj([type |-> JStr("array"), items |-> JObj([type |-> JStr("object")])])
      [] OTHER -> JObj([type |-> JStr(ty)])

\* schema!(object { required: {...}, optional: {...} }) over the <<name, type>>
\* pairs of the two lists, either of which can be empty: the properties are
\* inserted in order, so that a later one of the same name replaces an earlier
schema(required, optional) ==
    LET props == required \o optional
        last_of(k) == CHOOSE i \in DOMAIN props :
                         /\ props[i][1] = k
                         /\ \A j \in DOMAIN props : props[j][1] = k => j <= i
    IN JObj([type |-> JStr("object"),
             properties |->
                JObj([k \in {props[i][1] : i \in DOMAIN props} |->
                         schema_type(props[last_of(k)][2])]),
             required |-> JArr([i \in DOMAIN required |-> JStr(required[i][1])])])

\* tools::database::tools
database_tools ==
    <<ToolDef_new(<<"strata_", "db_", "ping">>,
                  "Ping the database to check connectivity and get version " \o
                  "info. Use this as a health check before starting work.",
                  schema(<<>>, <<>>)),
      ToolDef_new(<<"strata_", "db_", "info">>,
                  "Get database statistics including version, uptime in " \o
                  "seconds, branch count, and total keys. Useful for " \o
                  "monitoring and capacity planning.",
                  schema(<<>>, <<>>)),
      ToolDef_new(<<"strata_", "db_", "flush">>,
                  "Force pending writes to disk immediately. Normally writes " \o
                  "are buffered for performance; use this before critical " \o
                  "operations or shutdown.",
                  schema(<<>>, <<>>)),
      ToolDef_new(<<"strata_", "db_", "compact">>,
                  "Trigger storage compaction to reclaim disk space from " \o
                  "deleted data. This is done automatically but can be " \o
                  "triggered manually if needed.",
                  schema(<<>>, <<>>)),
      ToolDef_new(<<"strata_", "db_", "time_range">>,
                  "Get the available time range for the current branch. " \o
                  "Returns oldest_ts and latest_ts (microsecond timestamps) " \o
                  "for use with as_of time-travel reads. Returns null " \o
                  "timestamps if the branch has no data.",
                  schema(<<>>, <<>>))>>

\* tools::kv::tools
kv_tools ==
    <<ToolDef_new(<<"strata_", "kv_", "put">>,
                  "Store a key-value pair in the current branch/space. Values " \o
                  "can be any JSON type. Returns the new version number. Use " \o
                  "strata_kv_put_many for multiple keys.",
                  schema(<<<<"key", "string">>, <<"value", "any">>>>, <<>>)),
      ToolDef_new(<<"strata_", "kv_", "get">>,
                  "Get the value for a key with version info. Returns null if " \o
                  "key doesn't exist. Use strata_kv_get_many to fetch " \o
                  "multiple keys in one call.",
                  schema(<<<<"key", "string">>>>, <<>>)),
      ToolDef_new(<<"strata_", "kv_", "delete">>,
                  "Delete a key from the current branch/space. Returns true " \o
                  "if the key existed. Use strata_kv_delete_many for multiple " \o
                  "keys.",
                  schema(<<<<"key", "string">>>>, <<>>)),
      ToolDef_new(<<"strata_", "kv_", "list">>,
                  "List keys with optional prefix filter. Returns array of " \o
                  "key names. Use cursor and limit for pagination through " \o
                  "large result sets.",
                  schema(<<>>, <<<<"prefix", "string">>, <<"cursor", "string">>, <<"limit", "integer">>>>)),
      ToolDef_new(<<"strata_", "kv_", "history">>,
                  "Get all historical versions of a key. Returns array of " \o
                  "{value, version, timestamp}. Useful for auditing changes " \o
                  "or implementing undo.",
                  schema(<<<<"key", "string">>>>, <<>>)),
      ToolDef_new(<<"strata_", "kv_", "put_many">>,
                  "Store multiple key-value pairs in a single operation. More " \o
                  "efficient than multiple strata_kv_put calls. Returns array " \o
                  "of version numbers.",
                  schema(<<<<"items", "array_object">>>>, <<>>)),
      ToolDef_new(<<"strata_", "kv_", "get_many">>,
                  "Get multiple keys in a single operation. More efficient " \o
                  "than multiple strata_kv_get calls. Returns array of values " \o
                  "(null for missing keys).",
                  schema(<<<<"keys", "array_string">>>>, <<>>)),
      ToolDef_new(<<"strata_", "kv_", "delete_many">>,
                  "Delete multiple keys in a single operation. More efficient " \o
                  "than multiple strata_kv_delete calls. Returns array of " \o
                  "booleans (true if key existed).",
                  schema(<<<<"keys", "array_string">>>>, <<>>))>>

\* tools::state::tools
state_tools ==
    <<ToolDef_new(<<"strata_", "state_", "set">>,
                  "Set a state cell value (unconditional write). Returns the " \o
                  "version number.",
                  schema(<<<<"cell", "string">>, <<"value", "any">>>>, <<>>)),
      ToolDef_new(<<"strata_", "state_", "get">>,
                  "Get the current value of a state cell. Returns null if " \o
                  "cell doesn't exist. Pass as_of (microsecond timestamp) for " \o
                  "time-travel reads.",
                  schema(<<<<"cell", "string">>>>, <<<<"as_of", "integer">>>>)),
      ToolDef_new(<<"strata_", "state_", "delete">>,
                  "Delete a state cell. Returns true if the cell existed.",
                  schema(<<<<"cell", "string">>>>, <<>>)),
      ToolDef_new(<<"strata_", "state_", "init">>,
                  "Initialize a state cell only if it doesn't exist. Returns " \o
                  "the version number.",
                  schema(<<<<"cell", "string">>, <<"value", "any">>>>, <<>>)),
      ToolDef_new(<<"strata_", "state_", "cas">>,
                  "Compare-and-swap: update cell only if expected_counter " \o
                  "matches. Returns new version or null if CAS failed.",
                  schema(<<<<"cell", "string">>, <<"value", "any">>>>, <<<<"expected_counter", "integer">>>>)),
      ToolDef_new(<<"strata_", "state_", "list">>,
                  "List state cell names with optional prefix filter. Pass " \o
                  "as_of (microsecond timestamp) for time-travel reads.",
                  schema(<<>>, <<<<"prefix", "string">>, <<"as_of", "integer">>>>)),
      ToolDef_new(<<"strata_", "state_", "history">>,
                  "Get the full version history for a state cell. Pass as_of " \o
                  "(microsecond timestamp) to get history up to that point.",
                  schema(<<<<"cell", "string">>>>, <<<<"as_of", "integer">>>>))>>

\* tools::event::tools
event_tools ==
    <<ToolDef_new(<<"strata_", "event_", "append">>,
                  "Append an event to the log. Returns the sequence number " \o
                  "(version).",
                  schema(<<<<"event_type", "string">>, <<"payload", "any">>>>, <<>>)),
      ToolDef_new(<<"strata_", "event_", "get">>,
                  "Get an event by its sequence number. Returns null if not " \o
                  "found.",
                  schema(<<<<"sequence", "integer">>>>, <<>>)),
      ToolDef_new(<<"strata_", "event_", "list">>,
                  "List events of a specific type with optional pagination.",
                  schema(<<<<"event_type", "string">>>>, <<<<"limit", "integer">>, <<"after_sequence", "integer">>>>)),
      ToolDef_new(<<"strata_", "event_", "len">>,
                  "Get the total count of events in the log.",
                  schema(<<>>, <<>>))>>

\* tools::json::tools
json_tools ==
    <<ToolDef_new(<<"strata_", "json_", "set">>,
                  "Set a value at a JSONPath in a document. Creates the " \o
                  "document if it doesn't exist. Returns version number.",
                  schema(<<<<"key", "string">>, <<"path", "string">>, <<"value", "any">>>>, <<>>)),
      ToolDef_new(<<"strata_", "json_", "get">>,
                  "Get a value at a JSONPath from a document. Use '$' for the " \o
                  "entire document. Returns null if not found.",
                  schema(<<<<"key", "string">>, <<"path", "string">>>>, <<>>)),
      ToolDef_new(<<"strata_", "json_", "delete">>,
                  "Delete a JSON document. Returns the count of elements " \o
                  "removed (0 or 1).",
                  schema(<<<<"key", "string">>, <<"path", "string">>>>, <<>>)),
      ToolDef_new(<<"strata_", "json_", "list">>,
                  "List JSON document keys with optional prefix filter and " \o
                  "cursor-based pagination.",
                  schema(<<>>, <<<<"prefix", "string">>, <<"cursor", "string">>, <<"limit", "integer">>>>)),
      ToolDef_new(<<"strata_", "json_", "history">>,
                  "Get the full version history for a JSON document.",
                  schema(<<<<"key", "string">>>>, <<>>))>>

\* tools::space::tools
space_tools ==
    <<ToolDef_new(<<"strata_", "space_", "list">>,
                  "List all spaces in the current branch.",
                  schema(<<>>, <<>>)),
      ToolDef_new(<<"strata_", "space_", "create">>,
                  "Create a new space explicitly.",
                  schema(<<<<"space", "string">>>>, <<>>)),
      ToolDef_new(<<"strata_", "space_", "delete">>,
                  "Delete a space. Must be empty unless force=true.",
                  schema(<<<<"space", "string">>>>, <<<<"force", "boolean">>>>)),
      ToolDef_new(<<"strata_", "space_", "switch">>,
                  "Switch the session's current space context. All subsequent " \o
                  "operations will use this space.",
                  schema(<<<<"space", "string">>>>, <<>>))>>

\* tools::branch::tools
branch_tools ==
    <<ToolDef_new(<<"strata_", "branch_", "create">>,
                  "Create a new empty branch. Optionally specify branch_id " \o
                  "(UUID or name).",
                  schema(<<>>, <<<<"branch_id", "string">>>>)),
      ToolDef_new(<<"strata_", "branch_", "get">>,
                  "Get information about a specific branch.",
                  schema(<<<<"branch", "string">>>>, <<>>)),
      ToolDef_new(<<"strata_", "branch_", "list">>,
                  "List all branches with optional filtering and pagination.",
                  schema(<<>>, <<<<"limit", "integer">>, <<"offset", "integer">>>>)),
      ToolDef_new(<<"strata_", "branch_", "exists">>,
                  "Check if a branch exists. Returns true/false.",
                  schema(<<<<"branch", "string">>>>, <<>>)),
      ToolDef_new(<<"strata_", "branch_", "delete">>,
                  "Delete a branch and all its data. Cannot delete the " \o
                  "'default' branch.",
                  schema(<<<<"branch", "string">>>>, <<>>)),
      ToolDef_new(<<"strata_", "branch_", "fork">>,
                  "Fork the current branch to a new branch, copying all data.",
                  schema(<<<<"destination", "string">>>>, <<>>)),
      ToolDef_new(<<"strata_", "branch_", "diff">>,
                  "Compare two branches and return their differences.",
                  schema(<<<<"branch_a", "string">>, <<"branch_b", "string">>>>, <<>>)),
      ToolDef_new(<<"strata_", "branch_", "merge">>,
                  "Merge a source branch into the current branch. Strategy: " \o
                  "'last_writer_wins' or 'strict'.",
                  schema(<<<<"source", "string">>>>, <<<<"strategy", "string">>>>)),
      ToolDef_new(<<"strata_", "branch_", "switch">>,
                  "Switch the session's current branch context. All " \o
                  "subsequent operations will use this branch.",
                  schema(<<<<"branch", "string">>>>, <<>>))>>

\* tools::vector::tools
vector_tools ==
    <<ToolDef_new(<<"strata_", "vector_", "upsert">>,
                  "Insert or update a vector with optional metadata. Returns " \o
                  "the version number.",
                  schema(<<<<"collection", "string">>, <<"key", "string">>, <<"vector", "array_number">>>>, <<<<"metadata", "any">>>>)),
      ToolDef_new(<<"strata_", "vector_", "get">>,
                  "Get a vector by key. Returns the embedding, metadata, and " \o
                  "version info. Pass as_of (microsecond timestamp) for " \o
                  "time-travel reads.",
                  schema(<<<<"collection", "string">>, <<"key", "string">>>>, <<<<"as_of", "integer">>>>)),
      ToolDef_new(<<"strata_", "vector_", "delete">>,
                  "Delete a vector. Returns true if the vector existed.",
                  schema(<<<<"collection", "string">>, <<"key", "string">>>>, <<>>)),
      ToolDef_new(<<"strata_", "vector_", "search">>,
                  "Search for similar vectors. Returns top-k matches with " \o
                  "scores. Filters narrow results by metadata: each filter " \o
                  "has field (metadata key), op " \o
                  "(eq|ne|gt|gte|lt|lte|in|contains), and value. Pass as_of " \o
                  "(microsecond timestamp) for time-travel reads.",
                  JObj([type |-> JStr("object"),
                   properties |->
                     JObj([collection |-> schema_type("string"),
                           query |-> schema_type("array_number"),
                           k |-> schema_type("integer"),
                           filter |->
                             JObj([type |-> JStr("array"),
                                   items |->
                                     JObj([type |-> JStr("object"),
                                           properties |->
                                             JObj([field |-> JObj([type |-> JStr("string"),
                                                                   description |-> JStr("Metadata field name")]),
                                                   op |-> JObj([type |-> JStr("string"),
                                                                enum |-> JArr(<<JStr("eq"), JStr("ne"), JStr("gt"), JStr("gte"),
                                                                                JStr("lt"), JStr("lte"), JStr("in"), JStr("contains")>>),
                                                                description |-> JStr("Comparison operator")]),
                                                   value |-> JObj([description |-> JStr("Value to compare against")])]),
                                           required |-> JArr(<<JStr("field"), JStr("op"), JStr("value")>>)])]),
                           metric |-> JObj([type |-> JStr("string"),
                                            enum |-> JArr(<<JStr("cosine"), JStr("euclidean"), JStr("dot_product")>>)]),
                           as_of |-> JObj([type |-> JStr("integer"),
                                           description |-> JStr("Microsecond timestamp for time-travel reads")])]),
                   required |-> JArr(<<JStr("collection"), JStr("query"), JStr("k")>>)])),
      ToolDef_new(<<"strata_", "vector_", "create_collection">>,
                  "Create a new vector collection with specified dimension " \o
                  "and distance metric.",
                  schema(<<<<"collection", "string">>, <<"dimension", "integer">>>>, <<<<"metric", "string">>>>)),
      ToolDef_new(<<"strata_", "vector_", "delete_collection">>,
                  "Delete a vector collection and all its vectors. Returns " \o
                  "true if collection existed.",
                  schema(<<<<"collection", "string">>>>, <<>>)),
      ToolDef_new(<<"strata_", "vector_", "list_collections">>,
                  "List all vector collections in the current branch/space.",
                  schema(<<>>, <<>>)),
      ToolDef_new(<<"strata_", "vector_", "stats">>,
                  "Get detailed statistics for a specific collection.",
                  schema(<<<<"collection", "string">>>>, <<>>)),
      ToolDef_new(<<"strata_", "vector_", "batch_upsert">>,
                  "Insert or update multiple vectors in a single operation. " \o
                  "Returns version numbers.",
                  schema(<<<<"collection", "string">>, <<"entries", "array_object">>>>, <<>>))>>

\* tools::txn::tools
txn_tools ==
    <<ToolDef_new(<<"strata_", "txn_", "begin">>,
                  "Begin a new transaction on the current branch. Operations " \o
                  "within the transaction are atomic.",
                  schema(<<>>, <<<<"read_only", "boolean">>>>)),
      ToolDef_new(<<"strata_", "txn_", "commit">>,
                  "Commit the current transaction, making all changes " \o
                  "permanent.",
                  schema(<<>>, <<>>)),
      ToolDef_new(<<"strata_", "txn_", "rollback">>,
                  "Rollback the current transaction, discarding all changes.",
                  schema(<<>>, <<>>)),
      ToolDef_new(<<"strata_", "txn_", "info">>,
                  "Get information about the current transaction. Returns " \o
                  "null if no transaction is active.",
                  schema(<<>>, <<>>)),
      ToolDef_new(<<"strata_", "txn_", "active">>,
                  "Check if a transaction is currently active. Returns " \o
                  "true/false.",
                  schema(<<>>, <<>>))>>

\* tools::search::tools
search_tools ==
    <<ToolDef_new(<<"strata_", "search">>,
                  "Search across multiple primitives (kv, json, state, event) " \o
                  "for matching content. Returns ranked results with scores " \o
                  "and snippets. Use this to find data when you don't know " \o
                  "which primitive contains it.",
                  JObj([type |-> JStr("object"),
                   properties |->
                     JObj([query |-> schema_type("string"),
                           k |-> schema_type("integer"),
                           primitives |-> schema_type("array_string"),
                           time_range |->
                             JObj([type |-> JStr("object"),
                                   properties |-> JObj([start |-> schema_type("string"),
                                                        end |-> schema_type("string")]),
                                   required |-> JArr(<<JStr("start"), JStr("end")>>)]),
                           mode |-> JObj([type |-> JStr("string"),
                                          enum |-> JArr(<<JStr("keyword"), JStr("hybrid")>>)]),
                           expand |-> schema_type("boolean"),
                           rerank |-> schema_type("boolean")]),
                   required |-> JArr(<<JStr("query")>>)]))>>

\* tools::bundle::tools
bundle_tools ==
    <<ToolDef_new(<<"strata_", "bundle_", "export">>,
                  "Export a branch to a portable bundle file. The bundle " \o
                  "contains all data and can be imported into another " \o
                  "database. Returns the file path and statistics.",
                  schema(<<<<"branch", "string">>, <<"path", "string">>>>, <<>>)),
      ToolDef_new(<<"strata_", "bundle_", "import">>,
                  "Import a branch from a bundle file. Creates a new branch " \o
                  "with all the data from the bundle. Returns the imported " \o
                  "branch ID and statistics.",
                  schema(<<<<"path", "string">>>>, <<>>)),
      ToolDef_new(<<"strata_", "bundle_", "validate">>,
                  "Validate a bundle file without importing it. Checks format " \o
                  "version, entry count, and checksums. Returns validation " \o
                  "results.",
                  schema(<<<<"path", "string">>>>, <<>>))>>

\* tools::retention::tools: one descriptor, of strata_retention_apply, which
\* is called without arguments; its description is not at hand
retention_tools ==
    <<ToolDef_new(<<"strata_", "retention_", "apply">>,
                  "Apply the retention policy of the current branch.",
                  schema(<<>>, <<>>))>>

\* tools::config::tools
config_tools ==
    <<ToolDef_new(<<"strata_", "configure_", "model">>,
                  "Configure an inference model endpoint for intelligent " \o
                  "search. When configured, search() transparently expands " \o
                  "queries using the model for better recall. Accepts any " \o
                  "OpenAI-compatible endpoint (Ollama, vLLM, OpenAI).",
                  schema(<<<<"endpoint", "string">>, <<"model", "string">>>>, <<<<"api_key", "string">>, <<"timeout_ms", "integer">>>>))>>

\* ToolRegistry::new and ToolRegistry::tools: the catalog
ToolRegistry_new ==
    database_tools \o kv_tools \o state_tools \o event_tools \o json_tools
        \o space_tools \o branch_tools \o vector_tools \o txn_tools \o search_tools
        \o bundle_tools \o retention_tools \o config_tools

\* The names of a list of descriptors, in its order
names(tools) == [i \in DOMAIN tools |-> tools[i].name]

\* The names of the catalog
registry_tools == names(ToolRegistry_new)

\* The derived Serialize of ToolDef, with input_schema renamed inputSchema
Serialize_ToolDef(tool) ==
    JObj([name |-> JStr(tool.name), description |-> JStr(tool.description),
          inputSchema |-> tool.inputSchema])

\* McpServer::handle_initialize, refusing a server that is initialized already.
handle_initialize_once(s, request) ==
    IF s.initialized
    THEN Handled(s, JsonRpcResponse_error(request.id, INVALID_REQUEST,
                                          "Already initialized"))
    ELSE Handled([s EXCEPT !.initialized = TRUE],
                 JsonRpcResponse_success(request.id,
                     JObj([protocolVersion |-> JStr("2024-11-05"),
                           capabilities |-> JObj([tools |-> JObj(EmptyMap)]),
                           serverInfo |-> JObj([name |-> JStr("strata-mcp"),
                                                version |-> JStr("CARGO_PKG_VERSION")])])))

\* McpServer::handle_initialize
handle_initialize(s, request) ==
    Handled([s EXCEPT !.initialized = TRUE],
            JsonRpcResponse_success(request.id,
                JObj([protocolVersion |-> JStr("2024-11-05"),
                      capabilities |-> JObj([tools |-> JObj(EmptyMap)]),
                      serverInfo |-> JObj([name |-> JStr("strata-mcp"),
                                           version |-> JStr("CARGO_PKG_VERSION")])])))

\* McpServer::handle_tools_list, asking the engine whether it is there first.
handle_tools_list_probing(s, request) ==
    Handled([s EXCEPT !.w = session_execute(s.w, [op |-> "Ping"]).w],
            JsonRpcResponse_success(request.id,
                JObj([tools |-> JArr([i \in DOMAIN ToolRegistry_new |->
                                         Serialize_ToolDef(ToolRegistry_new[i])])])))

\* McpServer::handle_tools_list
handle_tools_list(s, request) ==
    Handled(s, JsonRpcResponse_success(request.id,
                   JObj([tools |-> JArr([i \in DOMAIN ToolRegistry_new |->
                                            Serialize_ToolDef(ToolRegistry_new[i])])])))

\* serde_json::to_string(&result) of a JSON value: the string that is its
\* serialisation (to_string does not fail on a serde_json::Value)
serde_json_to_string(v) == [json_text_of |-> v]

\* The `match self.registry.dispatch(...)` of handle_tools_call on the result x
dispatched(s, id, x) ==
    IF x.r.ok
    THEN Handled([s EXCEPT !.w = x.w],
                 JsonRpcResponse_success(id,
                     JObj([content |->
                               JArr(<<JObj([type |-> JStr("text"),
                                            text |-> JStr(serde_json_to_string(x.r.val))])>>)])))
    ELSE Handled([s EXCEPT !.w = x.w], JsonRpcResponse_from_error(id, x.r.err))

\* handle_tools_call, with arguments that are no object taken for none.
call_tool_lenient(s, id, name, arguments) ==
    IF ~ name.some
    THEN Handled(s, JsonRpcResponse_error(id, INVALID_PARAMS, "Missing 'name' in params"))
    ELSE dispatched(s, id,
             ToolRegistry_dispatch(s.w, name.val,
                 IF arguments.some /\ arguments.val.t = "obj"
                 THEN arguments.val.m ELSE EmptyMap))

\* handle_tools_call, from the members `name` and `arguments` of params
call_tool(s, id, name, arguments) ==
    IF ~ name.some
    THEN Handled(s, JsonRpcResponse_error(id, INVALID_PARAMS, "Missing 'name' in params"))
    ELSE IF arguments.some /\ arguments.val.t \notin {"obj", "null"}
    THEN Handled(s, JsonRpcResponse_error(id, INVALID_PARAMS,
                                          "'arguments' must be an object"))
    ELSE dispatched(s, id,
             ToolRegistry_dispatch(s.w, name.val,
                 IF arguments.some /\ arguments.val.t = "obj"
                 THEN arguments.val.m ELSE EmptyMap))

\* McpServer::handle_tools_call
handle_tools_call(s, request) ==
    IF ~ (request.params.some /\ request.params.val.t = "obj")
    THEN Handled(s, JsonRpcResponse_error(request.id, INVALID_PARAMS, "Missing params object"))
    ELSE call_tool(s, request.id,
                   and_then_as_str(get(request.params.val.m, "name")),
                   get(request.params.val.m, "arguments"))

\* McpServer::handle_request, answering every other method as it answers ping.
handle_request_lenient(s, request) ==
    IF request.jsonrpc # "2.0"
    THEN Handled(s, JsonRpcResponse_error(request.id, INVALID_REQUEST,
                                          "Invalid JSON-RPC version"))
    ELSE CASE request.method = "initialize" -> handle_initialize(s, request)
           [] request.method = "initialized" ->
                 Handled(s, JsonRpcResponse_success(request.id, JNull))
           [] request.method = "tools/list" -> handle_tools_list(s, request)
           [] request.method = "tools/call" -> handle_tools_call(s, request)
           [] OTHER ->
                 Handled(s, JsonRpcResponse_success(request.id, JObj(EmptyMap)))

\* McpServer::handle_request, routing the method without the version check.
handle_request_unversioned(s, request) ==
    CASE request.method = "initialize" -> handle_initialize(s, request)
      [] request.method = "initialized" ->
            Handled(s, JsonRpcResponse_success(request.id, JNull))
      [] request.method = "tools/list" -> handle_tools_list(s, request)
      [] request.method = "tools/call" -> handle_tools_call(s, request)
      [] request.method = "ping" ->
            Handled(s, JsonRpcResponse_success(request.id, JObj(EmptyMap)))
      [] OTHER ->
            Handled(s, JsonRpcResponse_error(request.id, METHOD_NOT_FOUND, "Unknown method"))

\* McpServer::handle_request, refusing tools/list and tools/call until the
\* server is initialized.
handle_request_gated(s, request) ==
    IF request.jsonrpc # "2.0"
    THEN Handled(s, JsonRpcResponse_error(request.id, INVALID_REQUEST,
                                          "Invalid JSON-RPC version"))
    ELSE IF request.method \in {"tools/list", "tools/call"} /\ ~ s.initialized
    THEN Handled(s, JsonRpcResponse_error(request.id, INVALID_REQUEST,
                                          "Server not initialized"))
    ELSE handle_request_unversioned(s, request)

\* McpServer::handle_request
handle_request(s, request) ==
    IF request.jsonrpc # "2.0"
    THEN Handled(s, JsonRpcResponse_error(request.id, INVALID_REQUEST,
                                          "Invalid JSON-RPC version"))
    ELSE CASE request.method = "initialize" -> handle_initialize(s, request)
           [] request.method = "initialized" ->
                 Handled(s, JsonRpcResponse_success(request.id, JNull))
           [] request.method = "tools/list" -> handle_tools_list(s, request)
           [] request.method = "tools/call" -> handle_tools_call(s, request)
           [] request.method = "ping" ->
                 Handled(s, JsonRpcResponse_success(request.id, JObj(EmptyMap)))
           [] OTHER ->
                 Handled(s, JsonRpcResponse_error(request.id, METHOD_NOT_FOUND,
                                                  "Unknown method"))

\* The `match serde_json::from_str::<JsonRpcRequest>(line)` of run_sync, on
\* the result of from_str
handle_parsed(s, parsed) ==
    IF parsed.ok THEN handle_request(s, parsed.val)
    ELSE Handled(s, JsonRpcResponse_error(None, PARSE_ERROR, "Parse error"))

\* One line through the parser and the handler
handle_line(s, text) == handle_parsed(s, from_str(text))

(***************************************************************************)
(* The input lines that are explored.  A line is [ws, text, nl]: `ws`      *)
(* whitespace characters around `text`, and whether a newline ends it.     *)
(* `text` is what str::trim leaves: Blank, Garbage (not JSON) or a JSON    *)
(* value.                                                                  *)
(***************************************************************************)
Absent == [t |-> "absent"]
Blank == [t |-> "blank"]
Garbage == [t |-> "garbage"]

\* The object with the given <<key, value>> members, Absent ones left out.
ObjOf(members) ==
    LET present == {x \in members : x[2] # Absent}
    IN JObj([k \in {x[1] : x \in present} |-> (CHOOSE x \in present : x[1] = k)[2]])

Envelope(jsonrpc, id, method, params) ==
    ObjOf({<<"jsonrpc", jsonrpc>>, <<"id", id>>, <<"method", method>>, <<"params", params>>})

CallParams(name, arguments) == ObjOf({<<"name", name>>, <<"arguments", arguments>>})

NoArgs == JObj(EmptyMap)

\* Sequences over S of length 0..n
RECURSIVE SeqsUpTo(_, _)
SeqsUpTo(S, n) ==
    IF n = 0 THEN {<<>>}
    ELSE LET shorter == SeqsUpTo(S, n - 1)
         IN shorter \cup {Append(q, x) : q \in {r \in shorter : Len(r) = n - 1}, x \in S}

BatchItems == {JObj([key |-> JStr("k"), value |-> JNum(1)]), JObj([value |-> JNum(1)])}

ToolCalls ==
    {<<<<"strata_", "db_", "ping">>, NoArgs>>,
     <<<<"strata_", "db_", "bogus">>, NoArgs>>,
     <<<<"strata_", "kv_", "put">>, JObj([key |-> JStr("k"), value |-> JNum(1)])>>,
     <<<<"strata_", "kv_", "put">>, JObj([key |-> JStr("k")])>>,
     <<<<"strata_", "kv_", "put">>, NoArgs>>,
     <<<<"strata_", "kv_", "get">>, JObj([key |-> JStr("k")])>>,
     <<<<"strata_", "kv_", "put_many">>, NoArgs>>,
     <<<<"strata_", "kv_", "bogus">>, NoArgs>>,
     <<<<"strata_", "space_", "switch">>, NoArgs>>,
     <<<<"strata_", "space_", "bogus">>, NoArgs>>,
     <<<<"strata_", "branch_", "create">>, JObj([branch_id |-> JStr("feature")])>>,
     <<<<"strata_", "branch_", "create">>, NoArgs>>,
     <<<<"strata_", "branch_", "exists">>, JObj([branch |-> JStr("feature")])>>,
     <<<<"strata_", "branch_", "switch">>, JObj([branch |-> JNum(5)])>>,
     <<<<"strata_", "branch_", "switch">>, NoArgs>>,
     <<<<"strata_", "branch_", "bogus">>, NoArgs>>,
     <<<<"strata_", "txn_", "begin">>, NoArgs>>,
     <<<<"strata_", "txn_", "begin">>, JObj([read_only |-> JBool(TRUE)])>>,
     <<<<"strata_", "txn_", "commit">>, NoArgs>>,
     <<<<"strata_", "txn_", "rollback">>, NoArgs>>,
     <<<<"strata_", "txn_", "active">>, NoArgs>>,
     <<<<"strata_", "txn_", "bogus">>, NoArgs>>,
     <<<<"strata_", "nonexistent">>, NoArgs>>,
     <<<<"other">>, NoArgs>>}
    \cup {<<<<"strata_", "kv_", "put_many">>, JObj([items |-> JArr(q)])>> :
            q \in SeqsUpTo(BatchItems, MaxBatch)}
    \cup {<<<<"strata_", "space_", "switch">>, JObj([space |-> JStr(sp)])>> : sp \in Spaces}
    \cup {<<<<"strata_", "branch_", "delete">>, JObj([branch |-> JStr(b)])>> : b \in Branches}
    \cup {<<<<"strata_", "branch_", "switch">>, JObj([branch |-> JStr(b)])>> :
            b \in Branches \cup {"nope"}}

\* The `params` of the tools/call requests
CallParamsSet ==
    {Absent, JNull, JArr(<<>>), JStr("x"),
     CallParams(Absent, NoArgs),
     CallParams(JNum(5), NoArgs),
     CallParams(JStr(<<"strata_", "db_", "ping">>), Absent),
     CallParams(JStr(<<"strata_", "db_", "ping">>), JNull),
     CallParams(JStr(<<"strata_", "space_", "switch">>), JStr("s1")),
     CallParams(JStr(<<"strata_", "txn_", "begin">>), JArr(<<>>))}
    \cup {CallParams(JStr(c[1]), c[2]) : c \in ToolCalls}

Methods == {"initialize", "initialized", "tools/list", "tools/call", "ping", "shutdown"}

Texts ==
    {Garbage, JNum(5), JArr(<<>>)}
    \* requests written as arrays of their fields
    \cup {JArr(<<JStr("2.0"), JNum(1), JStr("ping")>>),
          JArr(<<JStr("1.0"), JNull, JStr("shutdown"), JNull>>),
          JArr(<<JStr("2.0"), JNum(1)>>)}
    \* envelopes that are JSON but no request
    \cup {Envelope(Absent, JNum(1), JStr("ping"), Absent),
          Envelope(JNum(2), JNum(1), JStr("ping"), Absent),
          Envelope(JStr("2.0"), JNum(1), Absent, Absent),
          Envelope(JStr("2.0"), JNum(1), JNum(7), Absent),
          Envelope(JNull, JNum(1), JStr("initialize"), Absent)}
    \* an initialize that carries the client's parameters
    \cup {Envelope(JStr("2.0"), JNum(1), JStr("initialize"),
                   JObj([protocolVersion |-> JStr("2024-11-05")]))}
    \* requests of another version
    \cup {Envelope(JStr("1.0"), id, JStr(m), Absent) :
            id \in {Absent, JNum(1)}, m \in Methods}
    \cup {Envelope(JStr("1.0"), JNum(1), JStr("tools/call"), CallParams(JStr(c[1]), c[2])) :
            c \in {d \in ToolCalls : d[1][Len(d[1])] \in {"switch", "begin"}}}
    \* requests of version 2.0
    \cup {Envelope(JStr("2.0"), id, JStr(m), Absent) :
            id \in {Absent, JNull, JNum(1)}, m \in Methods}
    \cup {Envelope(JStr("2.0"), JNum(1), JStr("tools/call"), p) : p \in CallParamsSet}
    \cup {Envelope(JStr("2.0"), Absent, JStr("tools/call"),
                   CallParams(JStr(<<"strata_", "branch_", "switch">>),
                              JObj([branch |-> JStr(b)]))) : b \in {"feature", "nope"}}

\* The lines of an input: a blank line has whitespace or a newline.
Lines ==
    {line \in [ws : 0..1, text : {Blank}, nl : BOOLEAN] : line.ws > 0 \/ line.nl}
    \cup [ws : {0}, text : Texts, nl : BOOLEAN]

\* The bytes read_line returns, with an unterminated line taken for the end
\* of the stream.
bytes_read_terminated(line) ==
    IF line.nl THEN line.ws + (IF line.text = Blank THEN 0 ELSE 1) + 1 ELSE 0

\* The bytes read_line returns for a line (a text counts as one byte).
bytes_read(line) ==
    line.ws + (IF line.text = Blank THEN 0 ELSE 1) + (IF line.nl THEN 1 ELSE 0)

\* str::trim and str::is_empty
trim(line) == line.text
is_empty(text) == text = Blank

\* The length of the `items` array of a tools/call line (0 without one)
ItemsOf(text) ==
    IF /\ text.t = "obj"
       /\ "params" \in DOMAIN text.m
       /\ text.m["params"].t = "obj"
       /\ "arguments" \in DOMAIN text.m["params"].m
       /\ text.m["params"].m["arguments"].t = "obj"
       /\ "items" \in DOMAIN text.m["params"].m["arguments"].m
       /\ text.m["params"].m["arguments"].m["items"].t = "arr"
    THEN Len(text.m["params"].m["arguments"].m["items"].a)
    ELSE 0

\* The outcomes of the engine calls a line can lead to: one per item of a
\* batch, one for every other line.
PickSeqs(text) == [1..(IF ItemsOf(text) > 1 THEN ItemsOf(text) ELSE 1) -> Picks]

(***************************************************************************)
(* McpServer::run_sync as a state machine.                                 *)
(***************************************************************************)
VARIABLES
    pc,           \* "read", "write", "flush" or "done": the next step of the loop
    exit,         \* what run_sync returned: None while it runs, Some(Ok/Err) after
    initialized,  \* McpServer.initialized
    session,      \* McpSession: branch, space, in_transaction
    engine,       \* the engine behind the session
    issued,       \* the engine calls of the line being handled, with their results
    response,     \* the JsonRpcResponse built for the line being handled
    buf,          \* lines written to stdout and not flushed yet
    out,          \* the input lines whose answers the client has received, in order
    nlines,       \* the number of lines of the input
    terminated,   \* whether the last line of the input ends with a newline
    lineNo,       \* the number of lines read so far
    last,         \* the trimmed text of the line being handled
    answered,     \* the numbers of the lines read so far that have a text
    async_run     \* McpServer::run on the same input: its server, its stdout, its exit

vars == <<pc, exit, initialized, session, engine, issued, response, buf, out,
          nlines, terminated, lineNo, last, answered, async_run>>

\* McpServer::new over the database db at the start of McpServer::run: the
\* locals of run (stdout and the position in the loop) and the server
Running(db) ==
    [pc |-> "read", exit |-> None, initialized |-> FALSE, session |-> McpSession_new,
     engine |-> db, response |-> None, buf |-> <<>>, out |-> <<>>]

\* McpServer::new over McpSession::new over the database db, and an input
Started(db) ==
    /\ pc = "read"
    /\ exit = None
    /\ initialized = FALSE
    /\ session = McpSession_new
    /\ engine = db
    /\ issued = <<>>
    /\ response = None
    /\ buf = <<>>
    /\ out = <<>>
    /\ nlines \in 0..MaxLines
    /\ terminated \in BOOLEAN
    /\ nlines = 0 => terminated
    /\ lineNo = 0
    /\ last = None
    /\ answered = <<>>
    /\ async_run = Running(db)

\* McpServer::new over McpSession::new over a fresh database, and an input
Init == Started(Strata_cache)

\* The lines the input can hold next: a newline ends every line but the last,
\* and the last one if the input is terminated.
NextLines == {line \in Lines : line.nl = (lineNo + 1 < nlines \/ terminated)}

\* The lines with a text among those read, the one being read included
Answerable(line) ==
    IF line.text # Blank THEN Append(answered, lineNo + 1) ELSE answered

\* writeln!(stdout, "{}", response_json)
writeln(b, json) == Append(b, json)

\* stdout.flush(), leaving the written lines in the buffer.
flush_lazy(o, b) == [out |-> o, buf |-> b]

\* The input lines that the written lines answer
answers(b) == [i \in DOMAIN b |-> b[i].line]

\* stdout.flush()
flush(o, b) == [out |-> o \o answers(b), buf |-> <<>>]

\* read_line returns 0 bytes: end of stream, run_sync returns Ok(())
ReadEof ==
    /\ pc = "read"
    /\ \/ lineNo = nlines
       \/ lineNo < nlines /\ \E line \in NextLines : bytes_read(line) = 0
    /\ pc' = "done"
    /\ exit' = Some(Ok(Unit))
    /\ UNCHANGED <<initialized, session, engine, issued, response, buf, out,
                   nlines, terminated, lineNo, last, answered, async_run>>

\* read_line fails (the transport fails, or delivers bytes that are not
\* UTF-8): `?` returns the I/O error
ReadIoError ==
    /\ pc = "read"
    /\ pc' = "done"
    /\ exit' = Some(Err("Io"))
    /\ UNCHANGED <<initialized, session, engine, issued, response, buf, out,
                   nlines, terminated, lineNo, last, answered, async_run>>

\* a line that is empty after trim: `continue`
ReadBlank ==
    /\ pc = "read"
    /\ lineNo < nlines
    /\ \E line \in NextLines :
         /\ bytes_read(line) # 0
         /\ is_empty(trim(line))
         /\ answered' = Answerable(line)
    /\ lineNo' = lineNo + 1
    /\ UNCHANGED <<pc, exit, initialized, session, engine, issued, response, buf, out,
                   nlines, terminated, last, async_run>>

\* The server and the response after a line was handled with outcome h
Handle(h) ==
    /\ initialized' = h.s.initialized
    /\ session' = h.s.w.session
    /\ engine' = h.s.w.engine
    /\ issued' = h.s.w.issued
    /\ response' = Some(h.resp)

\* a non-blank line: parse it, handle the request, keep the response to send
ReadRequest ==
    /\ pc = "read"
    /\ lineNo < nlines
    /\ pc' = "write"
    /\ lineNo' = lineNo + 1
    /\ \E line \in NextLines :
         /\ bytes_read(line) # 0
         /\ ~ is_empty(trim(line))
         /\ last' = Some(trim(line))
         /\ answered' = Answerable(line)
         /\ \E picks \in PickSeqs(trim(line)) :
              Handle(handle_line([initialized |-> initialized,
                                  w |-> [session |-> session, engine |-> engine,
                                         issued |-> <<>>, picks |-> picks]],
                                 trim(line)))
    /\ UNCHANGED <<exit, buf, out, nlines, terminated, async_run>>

\* The write of the serialised response, or the `?` of a failed to_string
Written(response_json) ==
    IF response_json.ok
    THEN /\ buf' = writeln(buf, [line |-> lineNo, json |-> response_json.val])
         /\ pc' = "flush"
         /\ exit' = exit
    ELSE /\ buf' = buf
         /\ pc' = "done"
         /\ exit' = Some(Err(response_json.err))

\* serde_json::to_string(&response)? and writeln!
WriteLine ==
    /\ pc = "write"
    /\ Written(to_string_response(response.val))
    /\ UNCHANGED <<initialized, session, engine, issued, response, out,
                   nlines, terminated, lineNo, last, answered, async_run>>

\* writeln! fails: `?` returns the I/O error
WriteIoError ==
    /\ pc = "write"
    /\ pc' = "done"
    /\ exit' = Some(Err("Io"))
    /\ UNCHANGED <<initialized, session, engine, issued, response, buf, out,
                   nlines, terminated, lineNo, last, answered, async_run>>

Flushed(f) == out' = f.out /\ buf' = f.buf

\* stdout.flush(), and the end of the iteration: its locals are dropped
FlushOut ==
    /\ pc = "flush"
    /\ Flushed(flush(out, buf))
    /\ response' = None
    /\ last' = None
    /\ issued' = <<>>
    /\ pc' = "read"
    /\ UNCHANGED <<exit, initialized, session, engine, nlines, terminated, lineNo,
                   answered, async_run>>

\* stdout.flush() fails: `?` returns the I/O error
FlushIoError ==
    /\ pc = "flush"
    /\ pc' = "done"
    /\ exit' = Some(Err("Io"))
    /\ UNCHANGED <<initialized, session, engine, issued, response, buf, out,
                   nlines, terminated, lineNo, last, answered, async_run>>

Next ==
    \/ ReadEof
    \/ ReadIoError
    \/ ReadBlank
    \/ ReadRequest
    \/ WriteLine
    \/ WriteIoError
    \/ FlushOut
    \/ FlushIoError

Spec == Init /\ [][Next]_vars

\* The loop over a transport that works: the steps that fail for I/O are left
\* out, and the loop takes a step as long as one is possible (an engine call
\* returns, a read of a finite input returns).
NextNoIoError ==
    \/ ReadEof
    \/ ReadBlank
    \/ ReadRequest
    \/ WriteLine
    \/ FlushOut

FairSpec == Init /\ [][NextNoIoError]_vars /\ WF_vars(NextNoIoError)

(***************************************************************************)
(* McpServer::run next to McpServer::run_sync.  Both loops are given the   *)
(* same input, the same outcomes of the engine calls and the same failures *)
(* of the transport; each takes its own steps on its own server and its    *)
(* own stdout.  run writes a response with two calls of write_all, the     *)
(* text and then the newline, where run_sync has one writeln!: `buf` of    *)
(* run holds the pieces written, and a line is a text with its newline.    *)
(***************************************************************************)
Newline == [nl |-> TRUE]

\* stdout.write_all(bytes).await, dropping the newline.
write_all_unterminated(b, bytes) == IF bytes = Newline THEN b ELSE Append(b, bytes)

\* stdout.write_all(bytes).await
write_all(b, bytes) == Append(b, bytes)

\* The lines among the pieces written: each text that its newline follows
lines_in(b) == [i \in 1..(Len(b) \div 2) |-> b[2 * i - 1]]

\* The pieces after the lines: a text whose newline was not written
rest_of(b) == SubSeq(b, 2 * (Len(b) \div 2) + 1, Len(b))

\* stdout.flush().await: the lines written reach the client
flush_await(o, b) == [out |-> o \o answers(lines_in(b)), buf |-> rest_of(b)]

\* The `match serde_json::from_str::<JsonRpcRequest>(line)` of run on the
\* trimmed line `text`, the engine calls having the outcomes `picks`
run_handled(text, picks) ==
    handle_line([initialized |-> async_run.initialized,
                 w |-> [session |-> async_run.session, engine |-> async_run.engine,
                        issued |-> <<>>, picks |-> picks]],
                text)

\* run after the line was handled with outcome h
run_handle(h) ==
    [async_run EXCEPT !.pc = "write",
                      !.initialized = h.s.initialized,
                      !.session = h.s.w.session,
                      !.engine = h.s.w.engine,
                      !.response = Some(h.resp)]

\* run after serde_json::to_string(&response)? and the first write_all
run_written(response_json) ==
    IF response_json.ok
    THEN [async_run EXCEPT !.pc = "newline",
                           !.buf = write_all(@, [line |-> lineNo,
                                                 json |-> response_json.val])]
    ELSE [async_run EXCEPT !.pc = "done", !.exit = Some(Err(response_json.err))]

\* run leaves the loop: `break` at the end of the input, or `?` on an error
run_left(result) == [async_run EXCEPT !.pc = "done", !.exit = Some(result)]

\* Both loops read the end of the input
LoopsReadEof ==
    /\ pc = "read" /\ async_run.pc = "read"
    /\ \/ lineNo = nlines
       \/ lineNo < nlines /\ \E line \in NextLines : bytes_read(line) = 0
    /\ pc' = "done"
    /\ exit' = Some(Ok(Unit))
    /\ async_run' = run_left(Ok(Unit))
    /\ UNCHANGED <<initialized, session, engine, issued, response, buf, out,
                   nlines, terminated, lineNo, last, answered>>

\* read_line fails in both loops
LoopsReadIoError ==
    /\ pc = "read" /\ async_run.pc = "read"
    /\ pc' = "done"
    /\ exit' = Some(Err("Io"))
    /\ async_run' = run_left(Err("Io"))
    /\ UNCHANGED <<initialized, session, engine, issued, response, buf, out,
                   nlines, terminated, lineNo, last, answered>>

\* Both loops read a line that is empty after trim
LoopsReadBlank ==
    /\ pc = "read" /\ async_run.pc = "read"
    /\ lineNo < nlines
    /\ \E line \in NextLines :
         /\ bytes_read(line) # 0
         /\ is_empty(trim(line))
         /\ answered' = Answerable(line)
    /\ lineNo' = lineNo + 1
    /\ UNCHANGED <<pc, exit, initialized, session, engine, issued, response, buf, out,
                   nlines, terminated, last, async_run>>

\* Both loops read a line with a text, and each handles it on its server
LoopsReadRequest ==
    /\ pc = "read" /\ async_run.pc = "read"
    /\ lineNo < nlines
    /\ pc' = "write"
    /\ lineNo' = lineNo + 1
    /\ \E line \in NextLines :
         /\ bytes_read(line) # 0
         /\ ~ is_empty(trim(line))
         /\ last' = Some(trim(line))
         /\ answered' = Answerable(line)
         /\ \E picks \in PickSeqs(trim(line)) :
              /\ Handle(handle_line([initialized |-> initialized,
                                     w |-> [session |-> session, engine |-> engine,
                                            issued |-> <<>>, picks |-> picks]],
                                    trim(line)))
              /\ async_run' = run_handle(run_handled(trim(line), picks))
    /\ UNCHANGED <<exit, buf, out, nlines, terminated>>

\* run serialises the response and writes its text; run_sync has not
\* written yet
LoopsWriteText ==
    /\ pc = "write" /\ async_run.pc = "write"
    /\ async_run' = run_written(to_string_response(async_run.response.val))
    /\ UNCHANGED <<pc, exit, initialized, session, engine, issued, response, buf, out,
                   nlines, terminated, lineNo, last, answered>>

\* run writes the newline, run_sync the line
LoopsWriteLine ==
    /\ pc = "write" /\ async_run.pc \in {"newline", "done"}
    /\ Written(to_string_response(response.val))
    /\ async_run' = IF async_run.pc = "done" THEN async_run
                    ELSE [async_run EXCEPT !.pc = "flush", !.buf = write_all(@, Newline)]
    /\ UNCHANGED <<initialized, session, engine, issued, response, out,
                   nlines, terminated, lineNo, last, answered>>

\* The write fails in both loops: the writeln! of run_sync, and the first
\* write_all of run or, its text written, the second
LoopsWriteIoError ==
    /\ pc = "write" /\ async_run.pc \in {"write", "newline"}
    /\ pc' = "done"
    /\ exit' = Some(Err("Io"))
    /\ async_run' = run_left(Err("Io"))
    /\ UNCHANGED <<initialized, session, engine, issued, response, buf, out,
                   nlines, terminated, lineNo, last, answered>>

\* Both loops flush, and the iteration ends
LoopsFlush ==
    /\ pc = "flush" /\ async_run.pc = "flush"
    /\ Flushed(flush(out, buf))
    /\ response' = None
    /\ last' = None
    /\ issued' = <<>>
    /\ pc' = "read"
    /\ async_run' = [async_run EXCEPT !.pc = "read", !.response = None,
                                      !.out = flush_await(async_run.out, async_run.buf).out,
                                      !.buf = flush_await(async_run.out, async_run.buf).buf]
    /\ UNCHANGED <<exit, initialized, session, engine, nlines, terminated, lineNo,
                   answered>>

\* The flush fails in both loops
LoopsFlushIoError ==
    /\ pc = "flush" /\ async_run.pc = "flush"
    /\ pc' = "done"
    /\ exit' = Some(Err("Io"))
    /\ async_run' = run_left(Err("Io"))
    /\ UNCHANGED <<initialized, session, engine, issued, response, buf, out,
                   nlines, terminated, lineNo, last, answered>>

LoopsNext ==
    \/ LoopsReadEof
    \/ LoopsReadIoError
    \/ LoopsReadBlank
    \/ LoopsReadRequest
    \/ LoopsWriteText
    \/ LoopsWriteLine
    \/ LoopsWriteIoError
    \/ LoopsFlush
    \/ LoopsFlushIoError

LoopsSpec == Init /\ [][LoopsNext]_vars

(***************************************************************************)
(* The server over a transport that works, seen request by request: a      *)
(* session is a sequence of requests that were read, handled and answered  *)
(* (Prepare: one iteration of the loop as a single step), and the request  *)
(* that has just been read and handled (Request: its response is still to  *)
(* be written).  The requests of the first kind set the session context up *)
(* (branches, spaces, transactions, stored keys); the last one ranges over *)
(* every tool of the catalog, names that are in no catalog, the shapes of  *)
(* `params`, batches, and every error code the engine can fail with.       *)
(***************************************************************************)
MaxPrepare == 4

\* The codes of From<StrataError> for McpError
StrataErrorCodes ==
    {"KEY_NOT_FOUND", "BRANCH_NOT_FOUND", "COLLECTION_NOT_FOUND", "STREAM_NOT_FOUND",
     "CELL_NOT_FOUND", "DOCUMENT_NOT_FOUND", "WRONG_TYPE", "INVALID_KEY", "INVALID_PATH",
     "INVALID_INPUT", "VERSION_CONFLICT", "TRANSITION_FAILED", "CONFLICT",
     "BRANCH_CLOSED", "BRANCH_EXISTS", "COLLECTION_EXISTS", "DIMENSION_MISMATCH",
     "CONSTRAINT_VIOLATION", "HISTORY_TRIMMED", "OVERFLOW", "ACCESS_DENIED",
     "TXN_NOT_ACTIVE", "TXN_ALREADY_ACTIVE", "TXN_CONFLICT", "IO_ERROR",
     "SERIALIZATION_ERROR", "INTERNAL_ERROR", "NOT_IMPLEMENTED"}

\* A tools/call request line
Call(name, arguments) ==
    Envelope(JStr("2.0"), JNum(1), JStr("tools/call"), CallParams(JStr(name), arguments))

\* The elements of a sequence
Range(q) == {q[i] : i \in DOMAIN q}

\* Names that are in no catalog: one under each prefix of the dispatch chain,
\* and two under none
BogusNames ==
    {<<"strata_", p, "bogus">> :
        p \in {"db_", "kv_", "state_", "event_", "json_", "space_", "branch_", "vector_",
               "txn_", "configure_", "bundle_", "retention_"}}
    \cup {<<"strata_", "search", "_all">>, <<"strata_", "nonexistent">>, <<"other">>}

\* Names under the prefix of one category whose operation is one of another
\* category
CrossedNames ==
    {<<"strata_", "kv_", "set">>, <<"strata_", "state_", "put">>,
     <<"strata_", "txn_", "switch">>, <<"strata_", "space_", "begin">>,
     <<"strata_", "db_", "apply">>, <<"strata_", "space_", "exists">>}

\* An arguments object with a well-typed value for every argument a tool
\* of the catalog reads
RichArgs ==
    JObj([key |-> JStr("x"), value |-> JNum(1), keys |-> JArr(<<JStr("x"), JStr("y")>>),
          items |-> JArr(<<JObj([key |-> JStr("x"), value |-> JNum(1)]),
                           JObj([key |-> JStr("y"), value |-> JNum(2)])>>),
          prefix |-> JStr("x"), limit |-> JNum(1), cell |-> JStr("c"),
          event_type |-> JStr("e"), payload |-> JObj([a |-> JNum(1)]),
          sequence |-> JNum(0), path |-> JStr("$"), space |-> JStr("s1"),
          branch |-> JStr("feature"), branch_id |-> JStr("feature"),
          destination |-> JStr("auto"), branch_a |-> JStr("default"),
          branch_b |-> JStr("feature"), source |-> JStr("feature"),
          strategy |-> JStr("strict"), collection |-> JStr("c"), dimension |-> JNum(2),
          vector |-> JArr(<<JNum(1), JNum(0)>>), metric |-> JStr("cosine"),
          k |-> JNum(1), query |-> JStr("q"),
          filter |-> JArr(<<JObj([field |-> JStr("f"), op |-> JStr("eq"),
                                  value |-> JNum(1)])>>),
          entries |-> JArr(<<JObj([key |-> JStr("x"),
                                   vector |-> JArr(<<JNum(1), JNum(0)>>)])>>),
          primitives |-> JArr(<<JStr("kv")>>),
          time_range |-> JObj([start |-> JStr("a"), end |-> JStr("b")]),
          endpoint |-> JStr("http://localhost"), model |-> JStr("m"),
          read_only |-> JBool(FALSE), force |-> JBool(TRUE)])

\* The items of strata_kv_put_many and the keys of strata_kv_get_many and
\* strata_kv_delete_many: two well-formed ones and a malformed one
CallItems ==
    {JObj([key |-> JStr("x"), value |-> JNum(1)]),
     JObj([key |-> JStr("y"), value |-> JNum(2)]),
     JObj([key |-> JNum(5), value |-> JNum(1)])}
CallKeys == {JStr("x"), JStr("y"), JNum(5)}

\* The batch calls
BatchCalls ==
    {Call(<<"strata_", "kv_", "put_many">>, JObj([items |-> JArr(q)])) :
        q \in SeqsUpTo(CallItems, MaxBatch)}
    \cup {Call(<<"strata_", "kv_", op>>, JObj([keys |-> JArr(q)])) :
            op \in {"get_many", "delete_many"}, q \in SeqsUpTo(CallKeys, MaxBatch)}

\* The calls whose engine command is failed with every code
FaultedCalls ==
    {Call(<<"strata_", "db_", "ping">>, NoArgs),
     Call(<<"strata_", "kv_", "get">>, JObj([key |-> JStr("x")])),
     Call(<<"strata_", "txn_", "begin">>, NoArgs),
     Call(<<"strata_", "txn_", "commit">>, NoArgs),
     Call(<<"strata_", "txn_", "rollback">>, NoArgs),
     Call(<<"strata_", "branch_", "switch">>, JObj([branch |-> JStr("feature")])),
     Call(<<"strata_", "branch_", "fork">>, JObj([destination |-> JStr("auto")]))}

\* Calls with an argument that is present with a value of another type than
\* the handler reads
MistypedCalls ==
    {Call(<<"strata_", "kv_", "list">>, JObj([prefix |-> JNum(5)])),
     Call(<<"strata_", "kv_", "list">>, JObj([limit |-> JStr("ten")])),
     Call(<<"strata_", "kv_", "list">>, JObj([prefix |-> JStr("x"), limit |-> JBool(TRUE)])),
     Call(<<"strata_", "json_", "list">>, JObj([limit |-> JStr("ten")])),
     Call(<<"strata_", "txn_", "begin">>, JObj([read_only |-> JStr("yes")])),
     Call(<<"strata_", "kv_", "get">>, JObj([key |-> JNum(5)]))}

\* The names of the required arguments of a descriptor
RequiredOf(tool) ==
    {tool.inputSchema.m["required"].a[i].s : i \in DOMAIN tool.inputSchema.m["required"].a}

\* The declared type of an argument of a descriptor ("any" if none)
TypeOf(tool, k) ==
    IF "type" \in DOMAIN tool.inputSchema.m["properties"].m[k].m
    THEN tool.inputSchema.m["properties"].m[k].m["type"].s
    ELSE "any"

\* An arguments object without the argument k, and with a value for k that
\* is of no use for the declared type ty
Without(args, k) == JObj([j \in DOMAIN args.m \ {k} |-> args.m[j]])
Unusable(args, k, ty) ==
    JObj([j \in DOMAIN args.m |->
             IF j # k THEN args.m[j]
             ELSE IF ty = "string" THEN JNum(5) ELSE JStr("ten")])

\* The tools that issue one engine command per item of their argument
BatchTools == {<<"strata_", "kv_", op>> : op \in {"put_many", "get_many", "delete_many"}}

\* The descriptors of the tools that issue a single engine command
SingleCommandTools ==
    {ToolRegistry_new[i] : i \in {j \in DOMAIN ToolRegistry_new :
                                     ToolRegistry_new[j].name \notin BatchTools}}

\* The calls of those tools with every argument but a required one
MissingCalls ==
    UNION {{Call(tool.name, Without(RichArgs, k)) : k \in RequiredOf(tool)} :
              tool \in SingleCommandTools}

\* The calls of those tools with a required string, integer or array
\* argument of another type
UnusableCalls ==
    UNION {{Call(tool.name, Unusable(RichArgs, k, TypeOf(tool, k))) :
               k \in {r \in RequiredOf(tool) :
                         TypeOf(tool, r) \in {"string", "integer", "array"}}} :
              tool \in SingleCommandTools}

\* The ids of requests: none, null, a number, a string, an array
RequestIds == {Absent, JNull, JNum(2), JStr("a"), JArr(<<JNum(1)>>)}

\* Requests of every kind of answer, under each of those ids
IdentifiedTexts ==
    {Envelope(JStr(e[1]), id, JStr(e[2]), e[3]) :
        id \in RequestIds,
        e \in {<<"1.0", "ping", Absent>>, <<"2.0", "bogus", Absent>>,
               <<"2.0", "initialize", Absent>>, <<"2.0", "initialized", Absent>>,
               <<"2.0", "tools/list", Absent>>, <<"2.0", "ping", Absent>>,
               <<"2.0", "tools/call", Absent>>,
               <<"2.0", "tools/call", CallParams(JStr(<<"strata_", "nonexistent">>), NoArgs)>>,
               <<"2.0", "tools/call",
                 CallParams(JStr(<<"strata_", "kv_", "get">>), JObj([key |-> JStr("x")]))>>}}
    \cup {JArr(<<JStr("2.0"), JStr("a"), JStr("ping")>>)}

\* The requests that set a session up
PrepareTexts ==
    {Call(<<"strata_", "branch_", "create">>, JObj([branch_id |-> JStr("feature")])),
     Call(<<"strata_", "branch_", "switch">>, JObj([branch |-> JStr("feature")])),
     Call(<<"strata_", "branch_", "switch">>, JObj([branch |-> JStr("default")])),
     Call(<<"strata_", "kv_", "put">>, JObj([key |-> JStr("x"), value |-> JNum(1)])),
     Call(<<"strata_", "kv_", "put">>, JObj([key |-> JStr("x"), value |-> JNum(2)])),
     Call(<<"strata_", "space_", "switch">>, JObj([space |-> JStr("s1")])),
     Call(<<"strata_", "txn_", "begin">>, NoArgs),
     Call(<<"strata_", "txn_", "rollback">>, NoArgs)}

\* The request that is handled last
RequestTexts ==
    PrepareTexts
    \cup FaultedCalls
    \cup BatchCalls
    \cup MistypedCalls
    \cup MissingCalls
    \cup UnusableCalls
    \cup IdentifiedTexts
    \cup {Call(name, a) : name \in Range(registry_tools) \cup BogusNames \cup CrossedNames,
                          a \in {NoArgs, RichArgs}}
    \cup {Call(c[1], c[2]) : c \in ToolCalls}
    \cup {Call(<<"strata_", "kv_", "get">>, JObj([key |-> JStr("x")])),
          Call(<<"strata_", "kv_", "get">>, JObj([key |-> JStr("test")])),
          Call(<<"strata_", "kv_", "put">>, JObj([key |-> JStr("new"), value |-> JStr("fail")])),
          Call(<<"strata_", "space_", "switch">>, JObj([space |-> JStr("never created")])),
          Call(<<"strata_", "space_", "exists">>, JObj([space |-> JStr("default")])),
          Call(<<"strata_", "kv_", "list">>, JObj([limit |-> JNum(1)])),
          Call(<<"strata_", "kv_", "list">>, JObj([limit |-> JNum(2)])),
          Call(<<"strata_", "json_", "list">>, JObj([limit |-> JNum(1)])),
          Call(<<"strata_", "json_", "list">>, JObj([limit |-> JNum(2)])),
          Call(<<"strata_", "space_", "switch">>, JObj([space |-> JStr("")])),
          Call(<<"strata_", "vector_", "search">>,
               JObj([collection |-> JStr("c"), query |-> JArr(<<JNum(1)>>),
                     k |-> JNum(1)])),
          Call(<<"strata_", "vector_", "search">>,
               JObj([collection |-> JStr("c"), query |-> JArr(<<JNum(1)>>),
                     k |-> JNum(1), filter |-> JArr(<<JNum(5)>>)])),
          Call(<<"strata_", "vector_", "batch_upsert">>,
               JObj([collection |-> JStr("c"), entries |-> JArr(<<JNum(5)>>)]))}
    \cup {Envelope(JStr("2.0"), JNum(1), JStr("tools/call"), p) : p \in CallParamsSet}
    \cup {Call(name, a) : name \in {<<"strata_", "kv_", "put">>, <<"strata_", "txn_", "begin">>,
                                     <<"strata_", "space_", "switch">>},
                          a \in {Absent, JNull, JStr("s1"), JNum(0), JBool(TRUE)}}
    \cup {Envelope(JStr("2.0"), JNum(1), JStr(m), Absent) : m \in Methods \cup {"bogus"}}
    \cup {Garbage, JNum(5), Envelope(JStr("1.0"), JNum(1), JStr("ping"), Absent)}

\* The length of the array `k` of the arguments of a request text (0 if
\* there is none)
ArrayLen(text, k) ==
    IF /\ text.t = "obj"
       /\ "params" \in DOMAIN text.m
       /\ text.m["params"].t = "obj"
       /\ "arguments" \in DOMAIN text.m["params"].m
       /\ text.m["params"].m["arguments"].t = "obj"
       /\ k \in DOMAIN text.m["params"].m["arguments"].m
       /\ text.m["params"].m["arguments"].m[k].t = "arr"
    THEN Len(text.m["params"].m["arguments"].m[k].a)
    ELSE 0

\* The number of engine calls a request text can lead to: one per element of
\* its `items` or `keys` array, and at least one
CallsOf(text) ==
    IF ArrayLen(text, "items") > 1 \/ ArrayLen(text, "keys") > 1
    THEN IF ArrayLen(text, "items") > ArrayLen(text, "keys")
         THEN ArrayLen(text, "items") ELSE ArrayLen(text, "keys")
    ELSE 1

\* The outcomes of the engine calls of the request handled last
RequestPicks(text) ==
    IF text \in FaultedCalls THEN [1..1 -> Picks \cup StrataErrorCodes]
    ELSE IF CallsOf(text) > 1 THEN [1..CallsOf(text) -> {"ok", "ACCESS_DENIED"}]
    ELSE [1..1 -> Picks]

\* A request of a session that is being set up: read, handled by a working
\* engine, answered; the locals of the iteration are dropped
Prepare ==
    /\ pc = "read"
    /\ lineNo < MaxPrepare
    /\ lineNo' = lineNo + 1
    /\ \E text \in PrepareTexts :
         LET h == handle_line([initialized |-> initialized,
                               w |-> [session |-> session, engine |-> engine,
                                      issued |-> <<>>, picks |-> <<"ok">>]],
                              text)
         IN /\ initialized' = h.s.initialized
            /\ session' = h.s.w.session
            /\ engine' = h.s.w.engine
    /\ UNCHANGED <<pc, exit, issued, response, buf, out, nlines, terminated, last,
                   answered, async_run>>

\* The request handled last: read and handled, its response kept to send
Request ==
    /\ pc = "read"
    /\ pc' = "write"
    /\ lineNo' = lineNo + 1
    /\ \E text \in RequestTexts :
         /\ last' = Some(text)
         /\ \E picks \in RequestPicks(text) :
              Handle(handle_line([initialized |-> initialized,
                                  w |-> [session |-> session, engine |-> engine,
                                         issued |-> <<>>, picks |-> picks]],
                                 text))
    /\ UNCHANGED <<exit, buf, out, nlines, terminated, answered, async_run>>

\* The databases main opens: the cache, or a directory opened read-only
Databases == {Strata_cache, Strata_open_read_only}

CallInit == \E db \in Databases : Started(db) /\ nlines = 0

CallNext ==
    \/ Prepare
    \/ Request

CallSpec == CallInit /\ [][CallNext]_vars

(***************************************************************************)
(* The value converter, applied as strata_kv_put and strata_kv_get apply   *)
(* it: a put of a JSON value under the key "k" (get_value_arg and          *)
(* json_to_value, then Command::KvPut), and a get of the key               *)
(* (Output::MaybeVersioned, versioned_to_json and value_to_json).  The     *)
(* JSON values are what serde_json parsed: a number is an integer of the   *)
(* u64 or i64 range, or an f64.                                            *)
(***************************************************************************)
ConvertIntegers ==
    {I64_MIN, I64_MIN + 1, -1, 0, 1, 2, Pow2(MantissaBits) - 1, Pow2(MantissaBits),
     Pow2(MantissaBits) + 1, I64_MAX - 1, I64_MAX, I64_MAX + 1, I64_MAX + 2,
     I64_MAX + 3, U64_MAX - 1, U64_MAX}

ConvertFloats ==
    {F64(0, 0), F64(1, 0), F64(1, -1), F64(3, -1), F64(-3, -1), F64(-1, 0),
     F64(1, IntBits - 1), F64(1, IntBits), F64(Pow2(MantissaBits) - 1, IntBits)}

ConvertScalars ==
    {JNum(n) : n \in ConvertIntegers} \cup {JFloat(f) : f \in ConvertFloats}
        \cup {JNull, JBool(TRUE), JBool(FALSE), JStr(""), JStr("x")}

\* The values put inside arrays of two and nested objects
ConvertFew ==
    {JNum(1), JNum(I64_MAX), JNum(I64_MAX + 2), JFloat(F64(3, -1)), JStr("x"), JNull}

ConvertInputs ==
    ConvertScalars
        \cup {JArr(<<>>), JObj(EmptyMap)}
        \cup {JArr(<<a>>) : a \in ConvertScalars}
        \cup {JObj([a |-> v]) : v \in ConvertScalars}
        \cup {JArr(<<a, b>>) : a, b \in ConvertFew}
        \cup {JObj([a |-> JArr(<<v>>), b |-> JObj([c |-> v])]) : v \in ConvertFew}

\* strata_kv_put of a value under "k": read, handled by a working engine
PutValue ==
    /\ pc = "read"
    /\ lineNo = 0
    /\ pc' = "write"
    /\ lineNo' = 1
    /\ \E json \in ConvertInputs :
         /\ last' = Some(Call(<<"strata_", "kv_", "put">>,
                              JObj([key |-> JStr("k"), value |-> json])))
         /\ Handle(handle_line([initialized |-> initialized,
                                w |-> [session |-> session, engine |-> engine,
                                       issued |-> <<>>, picks |-> <<"ok">>]],
                               Call(<<"strata_", "kv_", "put">>,
                                    JObj([key |-> JStr("k"), value |-> json]))))
    /\ UNCHANGED <<exit, buf, out, nlines, terminated, answered, async_run>>

\* The put was answered; strata_kv_get of "k": read, handled by a working
\* engine
GetValue ==
    /\ pc = "write"
    /\ lineNo = 1
    /\ lineNo' = 2
    /\ last' = Some(Call(<<"strata_", "kv_", "get">>, JObj([key |-> JStr("k")])))
    /\ Handle(handle_line([initialized |-> initialized,
                           w |-> [session |-> session, engine |-> engine,
                                  issued |-> <<>>, picks |-> <<"ok">>]],
                          Call(<<"strata_", "kv_", "get">>, JObj([key |-> JStr("k")]))))
    /\ UNCHANGED <<pc, exit, buf, out, nlines, terminated, answered, async_run>>

ConvertInit == Started(Strata_cache) /\ nlines = 0

ConvertNext ==
    \/ PutValue
    \/ GetValue

ConvertSpec == ConvertInit /\ [][ConvertNext]_vars

(***************************************************************************)
(* Reading a line as the client wrote it, for the statements below.        *)
(***************************************************************************)
\* The position of the request's fields in a line that is a JSON array
FieldAt == [jsonrpc |-> 1, id |-> 2, method |-> 3, params |-> 4]

\* The field k of a line that is a JSON object, or a JSON array of three or
\* four values; Absent otherwise
TextMember(text, k) ==
    IF text.t = "obj" /\ k \in DOMAIN text.m THEN text.m[k]
    ELSE IF text.t = "arr" /\ Len(text.a) \in {3, 4} /\ FieldAt[k] <= Len(text.a)
    THEN text.a[FieldAt[k]]
    ELSE Absent

\* The line is a request: an object with a string jsonrpc and a string method
IsRequestText(text) ==
    TextMember(text, "jsonrpc").t = "str" /\ TextMember(text, "method").t = "str"

\* The id a request carries: none when the member is absent or null
RequestId(text) ==
    IF TextMember(text, "id").t \in {"absent", "null"} THEN None
    ELSE Some(TextMember(text, "id"))

\* The member k of the params object of a line
ParamsMember(text, k) ==
    IF TextMember(text, "params").t = "obj" /\ k \in DOMAIN TextMember(text, "params").m
    THEN TextMember(text, "params").m[k] ELSE Absent

\* The member k of the arguments object of a tools/call line
ArgumentOf(text, k) ==
    IF ParamsMember(text, "arguments").t = "obj"
       /\ k \in DOMAIN ParamsMember(text, "arguments").m
    THEN ParamsMember(text, "arguments").m[k] ELSE Absent

\* The line is a tools/call request of version 2.0
IsToolsCall(text) ==
    /\ TextMember(text, "jsonrpc") = JStr("2.0")
    /\ TextMember(text, "method") = JStr("tools/call")

\* The line is a well-formed call of the tool `name`
IsCallOf(text, name) ==
    /\ IsToolsCall(text)
    /\ ParamsMember(text, "name") = JStr(name)
    /\ ParamsMember(text, "arguments").t \in {"obj", "null", "absent"}

\* The step that reads a line with a text and handles it
HandledStep == pc = "read" /\ pc' = "write"

\* The error code of the response being sent, 0 if it is a success
ResponseCode == IF response.val.error.some THEN response.val.error.val.code ELSE 0

(***************************************************************************)
(* C1.  transaction_active is false initially; an execute that returns     *)
(* TxnBegun sets it, one that returns TxnCommitted or TxnAborted clears    *)
(* it, and every other output, every failed call and every other step      *)
(* leave it as it was.                                                     *)
(***************************************************************************)
\* The flag after the engine calls `calls`, as their results say
RECURSIVE FlagAfter(_, _)
FlagAfter(flag, calls) ==
    IF calls = <<>> THEN flag
    ELSE FlagAfter(
             IF Head(calls).res.ok /\ Head(calls).res.val.kind = "TxnBegun" THEN TRUE
             ELSE IF Head(calls).res.ok
                     /\ Head(calls).res.val.kind \in {"TxnCommitted", "TxnAborted"}
             THEN FALSE
             ELSE flag,
             Tail(calls))

C1_TxnFlagFollowsOutputs ==
    /\ session.in_transaction = FALSE
    /\ [][/\ HandledStep =>
               session'.in_transaction = FlagAfter(session.in_transaction, issued')
          /\ ~ HandledStep => session'.in_transaction = session.in_transaction]_vars

\* A commit was observed after a begin: the flag is false again.
C1_Witness ==
    /\ pc = "write"
    /\ Len(issued) = 1
    /\ issued[1].cmd.op = "TxnCommit"
    /\ issued[1].res = Ok(TxnCommitted(1))
    /\ ~ session.in_transaction

(***************************************************************************)
(* C2.  A branch switch whose existence check answers false fails with     *)
(* "branch not found" and leaves the session context as it was; the        *)
(* current branch changes only in a branch switch whose existence check    *)
(* answered true, and then to the requested name.                          *)
(***************************************************************************)
BranchSwitch == <<"strata_", "branch_", "switch">>

C2_SwitchToMissingBranch ==
    [][/\ ( /\ HandledStep
            /\ IsCallOf(last'.val, BranchSwitch)
            /\ ArgumentOf(last'.val, "branch").t = "str"
            /\ issued' # <<>>
            /\ issued'[1].res = Ok(Bool(FALSE)) )
          => /\ response'.val.error.some
             /\ response'.val.error.val.message = "branch not found"
             /\ session' = session
       /\ session'.branch # session.branch
          => /\ HandledStep
             /\ IsCallOf(last'.val, BranchSwitch)
             /\ issued' # <<>>
             /\ issued'[1].cmd = [op |-> "BranchExists", branch |-> session'.branch]
             /\ issued'[1].res = Ok(Bool(TRUE))
             /\ ArgumentOf(last'.val, "branch") = JStr(session'.branch)]_vars

\* A switch to a branch the engine does not have was refused while the
\* session was on another branch than the default.
C2_Witness ==
    /\ pc = "write"
    /\ IsCallOf(last.val, BranchSwitch)
    /\ ArgumentOf(last.val, "branch") = JStr("nope")
    /\ issued = <<[cmd |-> [op |-> "BranchExists", branch |-> "nope"],
                   res |-> Ok(Bool(FALSE))]>>
    /\ response.val.error.some
    /\ session.branch = "feature"

(***************************************************************************)
(* C3.  A tools/call that is answered with an error leaves the session     *)
(* context (branch, space, transaction flag) as it was before the call.    *)
(***************************************************************************)
C3_FailedCallKeepsContext ==
    [][( /\ HandledStep
         /\ IsToolsCall(last'.val)
         /\ response'.val.error.some )
       => session' = session]_vars

\* A call failed in the engine while the session was inside a transaction.
C3_Witness ==
    /\ pc = "write"
    /\ IsToolsCall(last.val)
    /\ response.val.error.some
    /\ issued # <<>>
    /\ ~ issued[1].res.ok
    /\ session.in_transaction

(***************************************************************************)
(* C4.  Every line with a text, a notification included, gets exactly one  *)
(* response line, written and flushed before the next line is read; blank  *)
(* lines get none; the responses arrive in the order of the requests.      *)
(***************************************************************************)
C4_OneResponsePerLine ==
    /\ pc = "read" => buf = <<>> /\ out = answered
    /\ pc = "write" => buf = <<>> /\ Append(out, lineNo) = answered
    /\ pc = "flush" => Len(buf) = 1 /\ out \o answers(buf) = answered
    /\ (pc = "done" /\ exit = Some(Ok(Unit))) => buf = <<>> /\ out = answered
    /\ \A i, j \in DOMAIN out : i < j => out[i] < out[j]

\* Lines 1 and 3 were answered, line 2 was blank, and the loop is about to
\* read again.
C4_Witness ==
    /\ pc = "read"
    /\ lineNo = 3
    /\ out = <<1, 3>>
    /\ buf = <<>>

(***************************************************************************)
(* C5.  Every emitted response line has exactly one of the members result  *)
(* and error, the null result of `initialized` included.                   *)
(***************************************************************************)
C5_ResultXorError ==
    \A i \in DOMAIN buf : ("result" \in buf[i].json) # ("error" \in buf[i].json)

\* The answer to `initialized` was written: its result is null and present.
C5_Witness ==
    /\ pc = "flush"
    /\ TextMember(last.val, "jsonrpc") = JStr("2.0")
    /\ TextMember(last.val, "method") = JStr("initialized")
    /\ response.val.result = Some(JNull)
    /\ "result" \in buf[1].json
    /\ "error" \notin buf[1].json

(***************************************************************************)
(* C6.  A line with a text that does not parse as a JSON-RPC request is    *)
(* answered with a Parse error (-32700) response without id; the loop goes *)
(* on, and the line changes neither the session context nor the            *)
(* initialized flag and issues no engine command.                          *)
(***************************************************************************)
C6_ParseErrorIsAnswered ==
    [][/\ (HandledStep /\ ~ IsRequestText(last'.val))
          => /\ response'.val.error.some
             /\ response'.val.error.val.code = PARSE_ERROR
             /\ response'.val.error.val.code = -32700
             /\ ~ response'.val.id.some
             /\ ~ response'.val.result.some
             /\ session' = session
             /\ initialized' = initialized
             /\ engine' = engine
             /\ issued' = <<>>
             /\ exit' = None
       /\ (pc \in {"write", "flush"} /\ ~ IsRequestText(last.val))
          => \/ pc' = "flush" /\ "id" \notin buf'[1].json /\ exit' = None
             \/ pc' = "read" /\ out' = Append(out, lineNo) /\ exit' = None
             \/ pc' = "done" /\ exit' = Some(Err("Io"))]_vars

\* An initialized server inside a transaction answered a line that is no
\* JSON, and is reading again.
C6_Witness ==
    /\ pc = "read"
    /\ lineNo = 3
    /\ out = <<1, 2, 3>>
    /\ initialized
    /\ session.in_transaction
    /\ exit = None

\* The answer to a line that is JSON but no request is being sent.
C6_WitnessEnvelope ==
    /\ pc = "flush"
    /\ last.val.t = "obj"
    /\ ~ IsRequestText(last.val)
    /\ ResponseCode = PARSE_ERROR
    /\ buf[1].json = {"jsonrpc", "error"}

(***************************************************************************)
(* C7.  No request ends the loop: whatever a line led to (a parse error,   *)
(* an invalid envelope, an unknown method or tool, bad arguments, an       *)
(* engine error), run_sync has not returned after handling it.  The loop   *)
(* ends only at the end of the stream, with success, or on an I/O failure  *)
(* of a read, a write or a flush.                                          *)
(***************************************************************************)
C7_OnlyEofOrIoEndsLoop ==
    [][/\ HandledStep => exit' = None
       /\ (pc # "done" /\ pc' = "done")
          => \/ pc = "read" /\ lineNo = nlines /\ exit' = Some(Ok(Unit))
             \/ exit' = Some(Err("Io"))
       /\ (pc = "write" /\ pc' # "done") => pc' = "flush" /\ exit' = None
       /\ (pc = "flush" /\ pc' # "done") => pc' = "read" /\ exit' = None
       /\ pc = "done" => pc' = "done" /\ exit' = exit]_vars

\* A call that failed in the engine was answered, and the loop reads on.
C7_Witness ==
    /\ pc = "flush"
    /\ exit = None
    /\ ResponseCode = INTERNAL_ERROR
    /\ issued # <<>>
    /\ ~ issued[1].res.ok
    /\ lineNo < nlines

(***************************************************************************)
(* C8.  The end of the stream ends the loop with Ok(()).  Over a transport *)
(* that works, with engine calls that return, run_sync on a finite input   *)
(* eventually returns Ok(()) having read every line and answered every     *)
(* line with a text, a last line without a newline included.               *)
(***************************************************************************)
C8_FiniteInputTerminates ==
    /\ [][(pc = "read" /\ lineNo = nlines) => pc' = "done" /\ exit' = Some(Ok(Unit))]_vars
    /\ <>[](/\ pc = "done"
            /\ exit = Some(Ok(Unit))
            /\ lineNo = nlines
            /\ out = answered
            /\ Len(answered) <= nlines)

\* run_sync returned Ok(()) after an input whose last line has a text and no
\* newline, and that line was answered.
C8_Witness ==
    /\ pc = "done"
    /\ exit = Some(Ok(Unit))
    /\ ~ terminated
    /\ nlines = 2
    /\ out = <<1, 2>>

(***************************************************************************)
(* C9.  A request whose jsonrpc is not "2.0" is answered with an Invalid   *)
(* Request (-32600) error carrying the id of the request, whatever its     *)
(* method; the method is not executed: the initialized flag, the session   *)
(* context and the engine are untouched and no engine command is issued.   *)
(***************************************************************************)
C9_VersionCheckedFirst ==
    [][( /\ HandledStep
         /\ IsRequestText(last'.val)
         /\ TextMember(last'.val, "jsonrpc") # JStr("2.0") )
       => /\ response'.val.error.some
          /\ response'.val.error.val.code = INVALID_REQUEST
          /\ response'.val.error.val.code = -32600
          /\ ~ response'.val.result.some
          /\ response'.val.id = RequestId(last'.val)
          /\ initialized' = initialized
          /\ session' = session
          /\ engine' = engine
          /\ issued' = <<>>]_vars

\* An initialize of version 1.0 was refused and the server is not initialized.
C9_Witness ==
    /\ pc = "write"
    /\ TextMember(last.val, "jsonrpc") = JStr("1.0")
    /\ TextMember(last.val, "method") = JStr("initialize")
    /\ ResponseCode = INVALID_REQUEST
    /\ response.val.id = Some(JNum(1))
    /\ ~ initialized

(***************************************************************************)
(* C10.  A request of version 2.0 whose method is none of initialize,      *)
(* initialized, tools/list, tools/call and ping is answered with a Method  *)
(* Not Found (-32601) error carrying the id of the request, and changes    *)
(* nothing in the server, the session or the engine.                       *)
(***************************************************************************)
KnownMethods == {"initialize", "initialized", "tools/list", "tools/call", "ping"}

C10_UnknownMethod ==
    [][( /\ HandledStep
         /\ IsRequestText(last'.val)
         /\ TextMember(last'.val, "jsonrpc") = JStr("2.0")
         /\ TextMember(last'.val, "method").s \notin KnownMethods )
       => /\ response'.val.error.some
          /\ response'.val.error.val.code = METHOD_NOT_FOUND
          /\ response'.val.error.val.code = -32601
          /\ ~ response'.val.result.some
          /\ response'.val.id = RequestId(last'.val)
          /\ initialized' = initialized
          /\ session' = session
          /\ engine' = engine
          /\ issued' = <<>>]_vars

\* A shutdown request was refused with its id.
C10_Witness ==
    /\ pc = "write"
    /\ TextMember(last.val, "jsonrpc") = JStr("2.0")
    /\ TextMember(last.val, "method") = JStr("shutdown")
    /\ ResponseCode = METHOD_NOT_FOUND
    /\ response.val.id = Some(JNum(1))
    /\ session.in_transaction

(***************************************************************************)
(* Statements about tools/call, checked request by request (CallSpec).     *)
(***************************************************************************)
\* The line is a tools/call that handle_tools_call lets through to the
\* registry: params is an object, name a string, arguments an object, null
\* or absent
IsDispatched(text) ==
    /\ IsToolsCall(text)
    /\ TextMember(text, "params").t = "obj"
    /\ ParamsMember(text, "name").t = "str"
    /\ ParamsMember(text, "arguments").t \in {"obj", "null", "absent"}

\* The tool name of such a line
NameOf(text) == ParamsMember(text, "name").s

(***************************************************************************)
(* C11.  A tools/call whose tool name is in no catalog (no prefix of the   *)
(* dispatch chain matches it, or one matches and the category has no such  *)
(* operation) is answered with the error code -32601, issues no engine     *)
(* command and leaves the session context and the engine as they were.     *)
(***************************************************************************)
C11_UnknownTool ==
    [][( /\ HandledStep
         /\ IsDispatched(last'.val)
         /\ NameOf(last'.val) \notin Range(registry_tools) )
       => /\ response'.val.error.some
          /\ response'.val.error.val.code = METHOD_NOT_FOUND
          /\ ~ response'.val.result.some
          /\ issued' = <<>>
          /\ session' = session
          /\ engine' = engine]_vars

\* A name under the kv prefix that no arm of the kv handler matches was
\* refused, with arguments a real tool would accept, while the session was
\* inside a transaction on another branch than the default.
C11_Witness ==
    /\ pc = "write"
    /\ IsDispatched(last.val)
    /\ NameOf(last.val) = <<"strata_", "kv_", "bogus">>
    /\ ParamsMember(last.val, "arguments") = RichArgs
    /\ response.val.error.some
    /\ response.val.error.val.code = METHOD_NOT_FOUND
    /\ issued = <<>>
    /\ session.in_transaction
    /\ session.branch = "feature"

(***************************************************************************)
(* C12.  A tools/call reaches the registry only when params is an object   *)
(* with a string `name` and `arguments` is an object, null or absent.      *)
(* Null and absent arguments are an empty object: the call is handled as   *)
(* the same call with `{}` is.  Every other tools/call is answered with    *)
(* the error code -32602 and the id of the request, by handle_tools_call   *)
(* itself, and nothing is dispatched: no engine command, no change of the  *)
(* session or of the engine.                                               *)
(***************************************************************************)
\* The messages of the errors handle_tools_call answers before it dispatches
ShapeMessages ==
    {"Missing params object", "Missing 'name' in params", "'arguments' must be an object"}

\* The line `text` with the arguments of its call replaced by an empty object
WithNoArgs(text) ==
    Envelope(TextMember(text, "jsonrpc"), TextMember(text, "id"),
             TextMember(text, "method"), CallParams(ParamsMember(text, "name"), NoArgs))

C12_ParamsShape ==
    [][/\ ( HandledStep /\ IsToolsCall(last'.val) /\ ~ IsDispatched(last'.val) )
          => /\ response'.val.error.some
             /\ response'.val.error.val.code = INVALID_PARAMS
             /\ response'.val.error.val.message \in ShapeMessages
             /\ response'.val.id = RequestId(last'.val)
             /\ issued' = <<>>
             /\ session' = session
             /\ engine' = engine
       /\ ( HandledStep /\ IsToolsCall(last'.val) /\ IsDispatched(last'.val) )
          => ~ ( /\ response'.val.error.some
                 /\ response'.val.error.val.message \in ShapeMessages )
       /\ ( /\ HandledStep
            /\ IsDispatched(last'.val)
            /\ ParamsMember(last'.val, "arguments").t \in {"null", "absent"} )
          => \E picks \in RequestPicks(last'.val) :
                Handle(handle_line([initialized |-> initialized,
                                    w |-> [session |-> session, engine |-> engine,
                                           issued |-> <<>>, picks |-> picks]],
                                   WithNoArgs(last'.val)))]_vars

\* A call of strata_txn_begin whose arguments are an array was refused by
\* handle_tools_call while the session was on another branch than the
\* default: no transaction was begun.
C12_Witness ==
    /\ pc = "write"
    /\ IsToolsCall(last.val)
    /\ ParamsMember(last.val, "name") = JStr(<<"strata_", "txn_", "begin">>)
    /\ ParamsMember(last.val, "arguments") = JArr(<<>>)
    /\ response.val.error.some
    /\ response.val.error.val.code = INVALID_PARAMS
    /\ response.val.error.val.message = "'arguments' must be an object"
    /\ response.val.id = Some(JNum(1))
    /\ issued = <<>>
    /\ session.branch = "feature"
    /\ ~ session.in_transaction
    /\ ~ engine.txn

(***************************************************************************)
(* C13.  The code of every error response is one of -32700, -32600,        *)
(* -32601, -32602, -32603.  When the engine fails a command, the response  *)
(* carries -32602 if the code of the failure is one of the six not-found   *)
(* codes, INVALID_KEY, INVALID_PATH, INVALID_INPUT or WRONG_TYPE, and      *)
(* -32603 for every other code.  A catalogued tool that fails before it    *)
(* issues a command (an argument is missing or invalid) answers -32602; a  *)
(* name in no catalog answers -32601.                                      *)
(***************************************************************************)
RpcCodes == {PARSE_ERROR, INVALID_REQUEST, METHOD_NOT_FOUND, INVALID_PARAMS, INTERNAL_ERROR}

\* The domain codes the claim maps to Invalid Params
InvalidParamsCodes ==
    {"KEY_NOT_FOUND", "BRANCH_NOT_FOUND", "COLLECTION_NOT_FOUND", "STREAM_NOT_FOUND",
     "CELL_NOT_FOUND", "DOCUMENT_NOT_FOUND", "INVALID_KEY", "INVALID_PATH",
     "INVALID_INPUT", "WRONG_TYPE"}

C13_ErrorCodes ==
    [][HandledStep =>
         /\ response'.val.error.some => response'.val.error.val.code \in RpcCodes
         /\ ( /\ IsDispatched(last'.val)
              /\ issued' # <<>>
              /\ ~ issued'[Len(issued')].res.ok )
            => /\ response'.val.error.some
               /\ issued'[Len(issued')].res.err.variant = "Strata"
               /\ response'.val.error.val.code =
                      IF issued'[Len(issued')].res.err.code \in InvalidParamsCodes
                      THEN INVALID_PARAMS ELSE INTERNAL_ERROR
         /\ ( /\ IsDispatched(last'.val)
              /\ NameOf(last'.val) \in Range(registry_tools)
              /\ issued' = <<>>
              /\ response'.val.error.some )
            => response'.val.error.val.code = INVALID_PARAMS
         /\ ( /\ IsDispatched(last'.val)
              /\ NameOf(last'.val) \notin Range(registry_tools) )
            => /\ response'.val.error.some
               /\ response'.val.error.val.code = METHOD_NOT_FOUND]_vars

\* The engine failed a strata_kv_get with DOCUMENT_NOT_FOUND and the call was
\* answered with -32602.
C13_Witness ==
    /\ pc = "write"
    /\ IsDispatched(last.val)
    /\ NameOf(last.val) = <<"strata_", "kv_", "get">>
    /\ Len(issued) = 1
    /\ issued[1].res = Err(StrataError("DOCUMENT_NOT_FOUND"))
    /\ response.val.error.some
    /\ response.val.error.val.code = INVALID_PARAMS

(***************************************************************************)
(* C14.  A strata_branch_switch that names a branch the engine does not    *)
(* have is answered with an error whose code is -32602 (Invalid Params).   *)
(***************************************************************************)
C14_SwitchToMissingIsInvalidParams ==
    [][( /\ HandledStep
         /\ IsCallOf(last'.val, BranchSwitch)
         /\ ArgumentOf(last'.val, "branch").t = "str"
         /\ issued' # <<>>
         /\ issued'[1].res = Ok(Bool(FALSE)) )
       => /\ response'.val.error.some
          /\ response'.val.error.val.code = INVALID_PARAMS]_vars

\* A switch to the branch "nope", which the engine said it does not have,
\* was answered with the code -32603.
C14_Witness ==
    /\ pc = "write"
    /\ IsCallOf(last.val, BranchSwitch)
    /\ ArgumentOf(last.val, "branch") = JStr("nope")
    /\ issued = <<[cmd |-> [op |-> "BranchExists", branch |-> "nope"],
                   res |-> Ok(Bool(FALSE))]>>
    /\ response.val.error.some
    /\ response.val.error.val.code = INTERNAL_ERROR
    /\ response.val.error.val.message = "branch not found"

(***************************************************************************)
(* C15.  When the engine fails a command passed to McpSession::execute, a  *)
(* failing TxnBegin, TxnCommit or TxnRollback included, the call returns   *)
(* that error (the failed command is the last one of the request, and the  *)
(* response is the Strata error) and the transaction flag keeps the value  *)
(* it had.                                                                 *)
(***************************************************************************)
\* The commands that go through the database handle, not through execute
BranchOps == {"BranchFork", "BranchDiff", "BranchMerge"}

C15_FailedExecuteKeepsFlag ==
    [][( /\ HandledStep
         /\ \E i \in DOMAIN issued' :
              ~ issued'[i].res.ok /\ issued'[i].cmd.op \notin BranchOps )
       => /\ ~ issued'[Len(issued')].res.ok
          /\ \A i \in 1..(Len(issued') - 1) : issued'[i].res.ok
          /\ response'.val.error.some
          /\ response'.val.error.val.message = to_string(issued'[Len(issued')].res.err)
          /\ response'.val.error.val.code = rpc_code(issued'[Len(issued')].res.err)
          /\ session'.in_transaction = session.in_transaction]_vars

\* The engine failed the commit of an open transaction with TXN_CONFLICT:
\* the call was answered with that error and the flag is still set.
C15_Witness ==
    /\ pc = "write"
    /\ IsDispatched(last.val)
    /\ NameOf(last.val) = <<"strata_", "txn_", "commit">>
    /\ issued = <<[cmd |-> [op |-> "TxnCommit"], res |-> Err(StrataError("TXN_CONFLICT"))]>>
    /\ response.val.error.some
    /\ response.val.error.val.message = "strata error"
    /\ session.in_transaction

(***************************************************************************)
(* C16.  Switching the space succeeds for every name, whether a space of   *)
(* that name exists or not, and issues no engine command; afterwards the   *)
(* current space is that name, and the branch and the transaction flag are *)
(* what they were.                                                         *)
(***************************************************************************)
SpaceSwitch == <<"strata_", "space_", "switch">>

C16_SwitchSpaceAlwaysSucceeds ==
    [][( /\ HandledStep
         /\ IsCallOf(last'.val, SpaceSwitch)
         /\ ArgumentOf(last'.val, "space").t = "str" )
       => /\ response'.val.result.some
          /\ ~ response'.val.error.some
          /\ issued' = <<>>
          /\ engine' = engine
          /\ session'.space = ArgumentOf(last'.val, "space").s
          /\ session'.branch = session.branch
          /\ session'.in_transaction = session.in_transaction]_vars

\* The session switched to a space nobody created, inside a transaction on
\* the branch "feature", without a call of the engine.
C16_Witness ==
    /\ pc = "write"
    /\ IsCallOf(last.val, SpaceSwitch)
    /\ ArgumentOf(last.val, "space") = JStr("never created")
    /\ response.val.result.some
    /\ issued = <<>>
    /\ session = [branch |-> "feature", space |-> "never created", in_transaction |-> TRUE]

(***************************************************************************)
(* C17.  Branch isolation.  strata_kv_get returns what was last written    *)
(* under the key on the branch (and in the space) the session is on at the *)
(* time of the read, null if nothing was, whatever other branches hold;    *)
(* strata_kv_put writes the key on the current branch and changes no value *)
(* of another branch.  So a value put on "feature" is not seen after the   *)
(* switch back to "default", and the other way round.                      *)
(***************************************************************************)
\* The JSON value a successful tools/call returns: the one its content text
\* is the serialisation of
ResultText == response.val.result.val.m["content"].a[1].m["text"].s.json_text_of

\* What the engine holds under `key` on branch b in space sp
Stored(eng, b, sp, key) ==
    {c \in eng.kv : c.branch = b /\ c.space = sp /\ c.key = key}

\* The JSON of a read of `key` on branch b in space sp
ReadOf(eng, b, sp, key) ==
    IF Stored(eng, b, sp, key) = {} THEN JNull
    ELSE JObj([value |-> value_to_json((CHOOSE c \in Stored(eng, b, sp, key) : TRUE).value),
               version |-> JNum(1), timestamp |-> JNum(0)])

KvGet == <<"strata_", "kv_", "get">>
KvPut == <<"strata_", "kv_", "put">>

C17_BranchIsolation ==
    [][/\ ( /\ HandledStep
            /\ IsCallOf(last'.val, KvGet)
            /\ ArgumentOf(last'.val, "key").t = "str"
            /\ issued'[1].res.ok
            /\ issued'[1].res.val.kind = "MaybeVersioned" )
          => /\ response'.val.result.some
             /\ ResultText' = ReadOf(engine, session.branch, session.space,
                                     ArgumentOf(last'.val, "key").s)
             /\ engine' = engine
       /\ ( /\ HandledStep
            /\ IsCallOf(last'.val, KvPut)
            /\ ArgumentOf(last'.val, "key").t = "str"
            /\ ArgumentOf(last'.val, "value").t = "num"
            /\ issued'[1].res.ok
            /\ issued'[1].res.val.kind = "Version" )
          => /\ ReadOf(engine', session.branch, session.space,
                       ArgumentOf(last'.val, "key").s).t = "obj"
             /\ ReadOf(engine', session.branch, session.space,
                       ArgumentOf(last'.val, "key").s).m["value"]
                   = ArgumentOf(last'.val, "value")
             /\ {c \in engine'.kv : c.branch # session.branch}
                   = {c \in engine.kv : c.branch # session.branch}]_vars

\* After create(feature), switch(feature), put(x, 2), switch(default): the
\* read of x on the default branch, which never wrote it, returned null
\* while the branch "feature" holds 2 under x.
C17_Witness ==
    /\ pc = "write"
    /\ IsCallOf(last.val, KvGet)
    /\ ArgumentOf(last.val, "key") = JStr("x")
    /\ session.branch = "default"
    /\ session.space = "default"
    /\ ReadOf(engine, "feature", "default", "x").t = "obj"
    /\ ReadOf(engine, "feature", "default", "x").m["value"] = JNum(2)
    /\ issued[1].res = Ok(MaybeVersioned(None))
    /\ response.val.result.some
    /\ ResultText = JNull

(***************************************************************************)
(* C18.  A batch call (strata_kv_put_many, strata_kv_get_many,             *)
(* strata_kv_delete_many) that succeeds over N items has executed exactly  *)
(* N commands, the i-th one the single-item command of the i-th item, in   *)
(* the order of the input, and returns an array of exactly N results, the  *)
(* i-th one the result of the i-th command.                                *)
(***************************************************************************)
KvPutMany == <<"strata_", "kv_", "put_many">>
KvGetMany == <<"strata_", "kv_", "get_many">>
KvDeleteMany == <<"strata_", "kv_", "delete_many">>

\* The array a batch call runs over, and the command of each batch tool
BatchArray(text) ==
    IF ParamsMember(text, "name") = JStr(KvPutMany) THEN ArgumentOf(text, "items").a
    ELSE ArgumentOf(text, "keys").a
BatchOp(text) ==
    CASE ParamsMember(text, "name") = JStr(KvPutMany) -> "KvPut"
      [] ParamsMember(text, "name") = JStr(KvGetMany) -> "KvGet"
      [] OTHER -> "KvDelete"

\* The line is a well-formed call of a batch tool
IsBatchCall(text) ==
    \/ IsCallOf(text, KvPutMany)
    \/ IsCallOf(text, KvGetMany)
    \/ IsCallOf(text, KvDeleteMany)

\* The key of the i-th element of the array of a batch call
BatchKey(text, i) ==
    IF ParamsMember(text, "name") = JStr(KvPutMany)
    THEN BatchArray(text)[i].m["key"].s
    ELSE BatchArray(text)[i].s

\* The command issued for the i-th element is the single-item command of it
IsCommandOf(call, text, i, sess) ==
    /\ call.cmd.op = BatchOp(text)
    /\ call.cmd.branch = Some(sess.branch)
    /\ call.cmd.space = Some(sess.space)
    /\ call.cmd.key = BatchKey(text, i)
    /\ ParamsMember(text, "name") = JStr(KvPutMany)
       => call.cmd.value = VInt(BatchArray(text)[i].m["value"].n)

\* The result of the i-th command as the single-item tool returns it
SingleResult(call) ==
    CASE ~ call.res.ok -> Absent
      [] call.res.val.kind = "Version" -> JObj([version |-> JNum(call.res.val.v)])
      [] call.res.val.kind = "Bool" -> JBool(call.res.val.b)
      [] call.res.val.kind = "MaybeVersioned" /\ call.res.val.opt.some ->
            JObj([value |-> value_to_json(call.res.val.opt.val.value),
                  version |-> JNum(call.res.val.opt.val.version),
                  timestamp |-> JNum(call.res.val.opt.val.timestamp)])
      [] OTHER -> JNull

C18_BatchInOrder ==
    [][( /\ HandledStep
         /\ IsBatchCall(last'.val)
         /\ response'.val.result.some )
       => /\ Len(issued') = Len(BatchArray(last'.val))
          /\ ResultText'.t = "arr"
          /\ Len(ResultText'.a) = Len(BatchArray(last'.val))
          /\ \A i \in DOMAIN issued' :
                /\ IsCommandOf(issued'[i], last'.val, i, session)
                /\ issued'[i].res.ok
                /\ ResultText'.a[i] = SingleResult(issued'[i])
          /\ ( /\ ParamsMember(last'.val, "name") = JStr(KvGetMany)
               /\ \A i \in DOMAIN issued' : issued'[i].res.val.kind = "MaybeVersioned" )
             => \A i \in DOMAIN issued' :
                   ResultText'.a[i] = ReadOf(engine, session.branch, session.space,
                                             BatchKey(last'.val, i))]_vars

\* strata_kv_get_many over the keys x, y executed the read of x, then the
\* read of y, and returned the stored value of x followed by null for y.
C18_Witness ==
    /\ pc = "write"
    /\ IsCallOf(last.val, KvGetMany)
    /\ ArgumentOf(last.val, "keys") = JArr(<<JStr("x"), JStr("y")>>)
    /\ response.val.result.some
    /\ Len(issued) = 2
    /\ issued[1].cmd.key = "x"
    /\ issued[2].cmd.key = "y"
    /\ ResultText.t = "arr"
    /\ Len(ResultText.a) = 2
    /\ ResultText.a[1].t = "obj"
    /\ ResultText.a[1].m["value"] = JNum(2)
    /\ ResultText.a[2] = JNull

(***************************************************************************)
(* C19.  A batch call stops at the first item that fails.  If the engine   *)
(* fails the command of an item, or an item is malformed, the call is      *)
(* answered with that item's error and no array; the commands of the items *)
(* before it were executed, one per item in order, and what they wrote is  *)
(* still in the engine; no command of a later item is executed.            *)
(***************************************************************************)
\* The i-th element of the array of a batch call is malformed
Malformed(text, i) ==
    IF ParamsMember(text, "name") = JStr(KvPutMany)
    THEN \/ BatchArray(text)[i].t # "obj"
         \/ "key" \notin DOMAIN BatchArray(text)[i].m
         \/ BatchArray(text)[i].m["key"].t # "str"
         \/ "value" \notin DOMAIN BatchArray(text)[i].m
    ELSE BatchArray(text)[i].t # "str"

\* The line is a batch call with an array to run over
HasBatchArray(text) ==
    /\ IsBatchCall(text)
    /\ ( IF ParamsMember(text, "name") = JStr(KvPutMany)
         THEN ArgumentOf(text, "items") ELSE ArgumentOf(text, "keys") ).t = "arr"

\* The writes of the commands `calls` of the batch `text` that succeeded are
\* in the engine eng, unless a later one of them wrote the same key
EffectsRemain(eng, calls, text, sess) ==
    \A j \in DOMAIN calls :
        ( /\ calls[j].res.ok
          /\ calls[j].res.val.kind \in {"Version", "Bool"}
          /\ calls[j].cmd.op \in {"KvPut", "KvDelete"}
          /\ \A k \in (j + 1)..Len(calls) :
                calls[k].res.ok => calls[k].cmd.key # calls[j].cmd.key )
        => IF calls[j].cmd.op = "KvPut"
           THEN /\ ReadOf(eng, sess.branch, sess.space, calls[j].cmd.key).t = "obj"
                /\ ReadOf(eng, sess.branch, sess.space, calls[j].cmd.key).m["value"]
                      = BatchArray(text)[j].m["value"]
           ELSE ReadOf(eng, sess.branch, sess.space, calls[j].cmd.key) = JNull

C19_BatchStopsAtFirstFailure ==
    [][( HandledStep /\ HasBatchArray(last'.val) ) =>
         /\ Len(issued') <= Len(BatchArray(last'.val))
         /\ \A j \in DOMAIN issued' :
               /\ ~ Malformed(last'.val, j)
               /\ IsCommandOf(issued'[j], last'.val, j, session)
               /\ j < Len(issued') => issued'[j].res.ok
         /\ EffectsRemain(engine', issued', last'.val, session)
         \* the engine failed the command of an item
         /\ ( issued' # <<>> /\ ~ issued'[Len(issued')].res.ok )
            => /\ response'.val.error.some
               /\ ~ response'.val.result.some
               /\ response'.val.error.val.message = "strata error"
               /\ response'.val.error.val.code = rpc_code(issued'[Len(issued')].res.err)
         \* an item is malformed and no command before it failed
         /\ ( /\ \E i \in DOMAIN BatchArray(last'.val) : Malformed(last'.val, i)
              /\ \A j \in DOMAIN issued' : issued'[j].res.ok )
            => /\ response'.val.error.some
               /\ ~ response'.val.result.some
               /\ response'.val.error.val.message = "invalid argument"
               /\ response'.val.error.val.code = INVALID_PARAMS
               /\ Len(issued') < Len(BatchArray(last'.val))
               /\ Malformed(last'.val, Len(issued') + 1)]_vars

\* strata_kv_put_many over y, x: the put of y succeeded, the engine failed
\* the put of x; the call was answered with that error, and y reads 2.
C19_Witness ==
    /\ pc = "write"
    /\ IsCallOf(last.val, KvPutMany)
    /\ ArgumentOf(last.val, "items") =
          JArr(<<JObj([key |-> JStr("y"), value |-> JNum(2)]),
                 JObj([key |-> JStr("x"), value |-> JNum(1)])>>)
    /\ Len(issued) = 2
    /\ issued[1].res = Ok(Version(1))
    /\ issued[2].res = Err(StrataError("ACCESS_DENIED"))
    /\ response.val.error.some
    /\ ~ response.val.result.some
    /\ ReadOf(engine, session.branch, session.space, "y").t = "obj"
    /\ ReadOf(engine, session.branch, session.space, "x") = JNull

(***************************************************************************)
(* C20.  Dispatch by name is total on the catalog: a call of a tool whose  *)
(* name ToolRegistry::new lists has exactly one outcome, a JSON result or  *)
(* one error, and that error is never "unknown tool": the prefix chain     *)
(* routes the name to the handler of its category, and that handler has an *)
(* arm for it.                                                             *)
(***************************************************************************)
\* The messages of the errors a handler that recognised the name can return
HandlerMessages ==
    {"missing required argument", "invalid argument", "strata error", "branch not found",
     "internal error"}

C20_CatalogIsDispatched ==
    [][( /\ HandledStep
         /\ IsDispatched(last'.val)
         /\ NameOf(last'.val) \in Range(registry_tools) )
       => /\ response'.val.result.some # response'.val.error.some
          /\ response'.val.error.some
             => /\ response'.val.error.val.code # METHOD_NOT_FOUND
                /\ response'.val.error.val.message \in HandlerMessages
          /\ response'.val.result.some
             => /\ response'.val.result.val.t = "obj"
                /\ DOMAIN response'.val.result.val.m = {"content"}]_vars

\* strata_space_delete, a name of the catalog, was routed to the space
\* handler, which built its command and returned the engine's answer.
C20_Witness ==
    /\ pc = "write"
    /\ IsDispatched(last.val)
    /\ NameOf(last.val) = <<"strata_", "space_", "delete">>
    /\ NameOf(last.val) \in Range(registry_tools)
    /\ Len(issued) = 1
    /\ issued[1].cmd.op = "SpaceDelete"
    /\ issued[1].cmd.space = "s1"
    /\ issued[1].cmd.force
    /\ issued[1].res.ok
    /\ response.val.result.some
    /\ ~ response.val.error.some

(***************************************************************************)
(* C21.  An argument of strata_kv_list that is present with the wrong type *)
(* (a `prefix` that is no string, a `limit` that is no integer) is         *)
(* answered with an "invalid argument" error, and no command is sent to    *)
(* the engine with the argument left out.                                  *)
(***************************************************************************)
KvList == <<"strata_", "kv_", "list">>

\* The argument k of the line is present and is no value of the type t
Mistyped(text, k, t) == ArgumentOf(text, k).t \notin {"absent", t}

C21_WrongTypeIsInvalidArg ==
    [][( /\ HandledStep
         /\ IsCallOf(last'.val, KvList)
         /\ \/ Mistyped(last'.val, "prefix", "str")
            \/ Mistyped(last'.val, "limit", "num") )
       => /\ issued' = <<>>
          /\ response'.val.error.some
          /\ response'.val.error.val.code = INVALID_PARAMS
          /\ response'.val.error.val.message = "invalid argument"]_vars

\* A strata_kv_list whose `prefix` is the number 5 was executed as a listing
\* without a prefix and answered with a result.
C21_Witness ==
    /\ pc = "write"
    /\ IsCallOf(last.val, KvList)
    /\ ArgumentOf(last.val, "prefix") = JNum(5)
    /\ Len(issued) = 1
    /\ issued[1].cmd.op = "KvList"
    /\ issued[1].cmd.prefix = None
    /\ issued[1].res.ok
    /\ response.val.result.some
    /\ ~ response.val.error.some

(***************************************************************************)
(* C22.  A tool name is routed by the longest category prefix it starts    *)
(* with.  A name that starts with no category prefix is answered "unknown  *)
(* tool".  A name that starts with one and is no operation of that         *)
(* category is answered "unknown tool" too, with no engine command and no  *)
(* change of the session, also when another category has an operation of   *)
(* that name.  A name that is an operation of the category it is routed to *)
(* is handled: it is not answered "unknown tool".                          *)
(***************************************************************************)
\* The prefixes of the dispatch chain with the catalog of their category
CategoryTools ==
    (<<"strata_", "db_">> :> names(database_tools))
    @@ (<<"strata_", "kv_">> :> names(kv_tools))
    @@ (<<"strata_", "state_">> :> names(state_tools))
    @@ (<<"strata_", "event_">> :> names(event_tools))
    @@ (<<"strata_", "json_">> :> names(json_tools))
    @@ (<<"strata_", "space_">> :> names(space_tools))
    @@ (<<"strata_", "branch_">> :> names(branch_tools))
    @@ (<<"strata_", "vector_">> :> names(vector_tools))
    @@ (<<"strata_", "txn_">> :> names(txn_tools))
    @@ (<<"strata_", "search">> :> names(search_tools))
    @@ (<<"strata_", "configure_">> :> names(config_tools))
    @@ (<<"strata_", "bundle_">> :> names(bundle_tools))
    @@ (<<"strata_", "retention_">> :> names(retention_tools))

\* The category prefixes a name starts with, and the longest of them
Matching(name) ==
    {p \in DOMAIN CategoryTools :
        Len(p) <= Len(name) /\ \A i \in DOMAIN p : name[i] = p[i]}
LongestPrefix(name) ==
    CHOOSE p \in Matching(name) : \A q \in Matching(name) : Len(q) <= Len(p)

\* The response being sent is the "unknown tool" error
IsUnknownTool(resp) ==
    /\ resp.error.some
    /\ ~ resp.result.some
    /\ resp.error.val.code = METHOD_NOT_FOUND
    /\ resp.error.val.message = "unknown tool"

\* The tool names the requests carry
RequestNames == Range(registry_tools) \cup BogusNames \cup CrossedNames

\* What the routing rule says of each name: "none" when no prefix matches,
\* "unknown" when the category of the longest prefix has no such operation,
\* "handled" when it has
Routing ==
    [name \in RequestNames |->
        IF Matching(name) = {} THEN "none"
        ELSE IF name \notin Range(CategoryTools[LongestPrefix(name)]) THEN "unknown"
        ELSE "handled"]

C22_LongestPrefixRouting ==
    [][( HandledStep /\ IsDispatched(last'.val) ) =>
         CASE Routing[NameOf(last'.val)] = "none" ->
                 IsUnknownTool(response'.val) /\ issued' = <<>>
           [] Routing[NameOf(last'.val)] = "unknown" ->
                 /\ IsUnknownTool(response'.val)
                 /\ issued' = <<>>
                 /\ session' = session
           [] OTHER -> ~ IsUnknownTool(response'.val)]_vars

\* strata_state_put, under the prefix of the state category and named as an
\* operation of the kv category, was called with the arguments of a kv put
\* and refused, with nothing sent to the engine.
C22_Witness ==
    /\ pc = "write"
    /\ IsDispatched(last.val)
    /\ NameOf(last.val) = <<"strata_", "state_", "put">>
    /\ LongestPrefix(NameOf(last.val)) = <<"strata_", "state_">>
    /\ ParamsMember(last.val, "arguments") = RichArgs
    /\ IsUnknownTool(response.val)
    /\ issued = <<>>
    /\ engine.kv # {}

(***************************************************************************)
(* C23.  initialize is idempotent.  Every initialize request of version    *)
(* 2.0, the first one and every later one, with or without parameters, is  *)
(* answered with a result that is always the same (the protocol version,   *)
(* the capabilities {tools: {}}, the server's name and version) under the  *)
(* id of the request.  It leaves the server initialized and changes        *)
(* nothing else, so a call on an initialized server changes nothing; and   *)
(* in every state handling two initialize requests in a row gives the      *)
(* server and the response that handling one gives.                        *)
(***************************************************************************)
\* The result of initialize
InitializeResult ==
    JObj([protocolVersion |-> JStr("2024-11-05"),
          capabilities |-> JObj([tools |-> JObj(EmptyMap)]),
          serverInfo |-> JObj([name |-> JStr("strata-mcp"),
                               version |-> JStr("CARGO_PKG_VERSION")])])

\* The line is an initialize request of version 2.0
IsInitialize(text) ==
    /\ TextMember(text, "jsonrpc") = JStr("2.0")
    /\ TextMember(text, "method") = JStr("initialize")

\* The server of the current state, and an initialize request with this id
ServerNow(init, sess, eng) ==
    [initialized |-> init,
     w |-> [session |-> sess, engine |-> eng, issued |-> <<>>, picks |-> <<>>]]
InitializeRequest(id) ==
    [jsonrpc |-> "2.0", id |-> id, method |-> "initialize", params |-> None]

C23_InitializeIdempotent ==
    [][/\ ( HandledStep /\ IsInitialize(last'.val) )
          => /\ response'.val = [jsonrpc |-> "2.0", id |-> RequestId(last'.val),
                                 result |-> Some(InitializeResult), error |-> None]
             /\ initialized'
             /\ initialized => initialized' = initialized
             /\ session' = session
             /\ engine' = engine
             /\ issued' = <<>>
       /\ \A id \in {None, Some(JNum(1))} :
             handle_request(
                 handle_request(ServerNow(initialized', session', engine'),
                                InitializeRequest(id)).s,
                 InitializeRequest(id))
             = handle_request(ServerNow(initialized', session', engine'),
                              InitializeRequest(id))]_vars

\* The third line of an input is an initialize; the server was initialized
\* before it and is inside a transaction, and the line was answered with the
\* same result.
C23_Witness ==
    /\ pc = "write"
    /\ lineNo = 3
    /\ IsInitialize(last.val)
    /\ TextMember(last.val, "params").t = "obj"
    /\ initialized
    /\ session.in_transaction
    /\ response.val.result = Some(InitializeResult)
    /\ ~ response.val.error.some

(***************************************************************************)
(* C24.  A strata_txn_rollback that the engine executes puts the store     *)
(* back: every key reads the value it had when the transaction began       *)
(* (null if it did not exist), the writes of the transaction are gone, and *)
(* the transaction flag of the session is false.  A strata_kv_get that     *)
(* follows the rollback returns, for a key that was written inside the     *)
(* transaction, the value the key had before the transaction.              *)
(***************************************************************************)
TxnRollback == <<"strata_", "txn_", "rollback">>

\* The branches, spaces and keys a cell of the store can have
CellBranches == Branches
CellSpaces == Spaces
CellKeys == {KeyOrder[i] : i \in DOMAIN KeyOrder}

C24_RollbackRestores ==
    [][/\ ( /\ HandledStep
            /\ IsCallOf(last'.val, TxnRollback)
            /\ issued' # <<>>
            /\ issued'[1].res.ok
            /\ issued'[1].res.val # Unit )
          => /\ issued' = <<[cmd |-> [op |-> "TxnRollback"], res |-> Ok(TxnAborted)]>>
             /\ response'.val.result.some
             /\ ResultText' = JObj([status |-> JStr("aborted")])
             /\ ~ session'.in_transaction
             /\ ~ engine'.txn
             /\ \A b \in CellBranches, sp \in CellSpaces, key \in CellKeys :
                   ReadOf(engine', b, sp, key) = ReadOf([kv |-> engine.undo.kv], b, sp, key)
       /\ ( /\ HandledStep
            /\ IsCallOf(last'.val, KvGet)
            /\ ArgumentOf(last'.val, "key").t = "str"
            /\ issued'[1].res.ok
            /\ issued'[1].res.val.kind = "MaybeVersioned"
            \* the key was written inside a transaction that was rolled back,
            \* and nothing was written since
            /\ \E c \in engine.undone.writes :
                  /\ c.branch = session.branch
                  /\ c.space = session.space
                  /\ c.key = ArgumentOf(last'.val, "key").s
            /\ engine.kv = engine.undone.kv
            /\ ~ engine.txn )
          => /\ response'.val.result.some
             /\ ResultText' = ReadOf([kv |-> engine.undone.kv], session.branch,
                                     session.space, ArgumentOf(last'.val, "key").s)]_vars

\* After put(x, 1), begin, put(x, 2), rollback: the read of x returned 1, the
\* write of 2 is what the rollback discarded, and the session is in no
\* transaction.
C24_Witness ==
    /\ pc = "write"
    /\ IsCallOf(last.val, KvGet)
    /\ ArgumentOf(last.val, "key") = JStr("x")
    /\ lineNo = 5
    /\ session = McpSession_new
    /\ ~ engine.txn
    /\ engine.undone.writes = {[branch |-> "default", space |-> "default", key |-> "x",
                                value |-> VInt(2)]}
    /\ engine.undone.kv = {[branch |-> "default", space |-> "default", key |-> "x",
                            value |-> VInt(1)]}
    /\ response.val.result.some
    /\ ResultText = JObj([value |-> JNum(1), version |-> JNum(1), timestamp |-> JNum(0)])

(***************************************************************************)
(* C25.  On a database opened read-only no request changes the keys, the   *)
(* documents or the branches stored.  A call of a mutating tool changes    *)
(* neither the database nor the session and is answered with an error;     *)
(* the command it sends is a writing one and the only one, the engine      *)
(* denies it with ACCESS_DENIED, and the answer is the "strata error" of   *)
(* that denial.  Every writing command of any tool is denied in the same   *)
(* way.  The read calls strata_kv_get, strata_kv_list, strata_db_ping,     *)
(* strata_db_info, strata_branch_list and strata_space_list change nothing *)
(* either and are answered with the result of the engine whenever the      *)
(* engine gives one: strata_kv_get with the value stored, strata_kv_list   *)
(* with the keys stored.                                                   *)
(***************************************************************************)
MutatingTools ==
    {KvPut, <<"strata_", "kv_", "delete">>, <<"strata_", "state_", "set">>,
     <<"strata_", "state_", "init">>, <<"strata_", "state_", "cas">>,
     <<"strata_", "state_", "delete">>, <<"strata_", "event_", "append">>,
     <<"strata_", "json_", "set">>, <<"strata_", "json_", "delete">>,
     <<"strata_", "space_", "create">>, <<"strata_", "space_", "delete">>,
     <<"strata_", "branch_", "create">>, <<"strata_", "branch_", "delete">>,
     <<"strata_", "vector_", "upsert">>, <<"strata_", "vector_", "delete">>,
     <<"strata_", "vector_", "create_collection">>,
     <<"strata_", "vector_", "delete_collection">>}

ReadTools ==
    {KvGet, KvList, <<"strata_", "db_", "ping">>, <<"strata_", "db_", "info">>,
     <<"strata_", "branch_", "list">>, <<"strata_", "space_", "list">>}

\* The line is a call of one of the tools of the set
IsCallIn(text, tools) == \E name \in tools : IsCallOf(text, name)

\* The answer being sent is the denial of the engine
Denied(iss, resp) ==
    /\ Len(iss) = 1
    /\ iss[1].cmd.op \in WriteOps
    /\ iss[1].res = Err(StrataError("ACCESS_DENIED"))
    /\ resp.val.error.some
    /\ ~ resp.val.result.some
    /\ resp.val.error.val.code = INTERNAL_ERROR
    /\ resp.val.error.val.message = "strata error"

C25_ReadOnlyDeniesWrites ==
    [][( /\ HandledStep
         /\ engine.access_mode = "ReadOnly" )
       => /\ engine'.kv = engine.kv
          /\ engine'.docs = engine.docs
          /\ engine'.branches = engine.branches
          /\ IsCallIn(last'.val, MutatingTools)
                => /\ session' = session
                   /\ engine' = engine
                   /\ response'.val.error.some
                   /\ issued' # <<>> => Denied(issued', response')
          /\ (issued' # <<>> /\ issued'[1].cmd.op \in WriteOps)
                => Denied(issued', response')
          /\ ( /\ IsCallIn(last'.val, ReadTools)
               /\ issued' # <<>>
               /\ issued'[1].res.ok )
                => /\ Len(issued') = 1
                   /\ issued'[1].cmd.op \notin WriteOps
                   /\ session' = session
                   /\ engine' = engine
                   /\ response'.val.result.some
                   /\ ~ response'.val.error.some
                   /\ ResultText' = output_to_json(issued'[1].res.val)
                   /\ ( /\ IsCallOf(last'.val, KvGet)
                        /\ issued'[1].res.val # Unit )
                         => ResultText' = ReadOf(engine, session.branch, session.space,
                                                 issued'[1].cmd.key)
                   /\ ( /\ IsCallOf(last'.val, KvList)
                        /\ ArgumentOf(last'.val, "prefix").t = "absent"
                        /\ ArgumentOf(last'.val, "limit").t # "num"
                        /\ issued'[1].res.val # Unit )
                         => ResultText' =
                              output_to_json(
                                Keys(listed({c.key : c \in
                                               {d \in engine.kv :
                                                  /\ d.branch = session.branch
                                                  /\ d.space = session.space}},
                                            None, None)))]_vars

\* Read-only: strata_kv_put of the key "new" was denied and answered with a
\* strata error, and the database is as it was opened.
C25_Witness ==
    /\ pc = "write"
    /\ engine = Strata_open_read_only
    /\ IsCallOf(last.val, KvPut)
    /\ ArgumentOf(last.val, "key") = JStr("new")
    /\ Denied(issued, response)
    /\ issued[1].cmd.key = "new"

(***************************************************************************)
(* C26.  strata_space_exists called with a space name succeeds: it is      *)
(* answered with a result that is true or false, true for the space        *)
(* "default", and the session context is as it was.                        *)
(***************************************************************************)
SpaceExists == <<"strata_", "space_", "exists">>

C26_SpaceExistsAnswers ==
    [][( /\ HandledStep
         /\ IsCallOf(last'.val, SpaceExists)
         /\ ArgumentOf(last'.val, "space").t = "str" )
       => /\ session' = session
          /\ response'.val.result.some
          /\ ~ response'.val.error.some
          /\ ResultText' \in {JBool(TRUE), JBool(FALSE)}
          /\ ArgumentOf(last'.val, "space") = JStr("default")
                => ResultText' = JBool(TRUE)]_vars

\* strata_space_exists of "default" on a fresh database was answered as an
\* unknown tool, and no command was sent.
C26_Witness ==
    /\ pc = "write"
    /\ lineNo = 1
    /\ IsCallOf(last.val, SpaceExists)
    /\ ArgumentOf(last.val, "space") = JStr("default")
    /\ issued = <<>>
    /\ response.val.error.some
    /\ ~ response.val.result.some
    /\ response.val.error.val.code = METHOD_NOT_FOUND
    /\ response.val.error.val.message = "unknown tool"

(***************************************************************************)
(* C27.  A JSON value that json_to_value accepts comes back from           *)
(* value_to_json as the same JSON value: the value a strata_kv_put stored  *)
(* under a key is the value the strata_kv_get of the key returns, an       *)
(* integer as the same integer.                                            *)
(***************************************************************************)
PutStep == pc = "read" /\ pc' = "write" /\ lineNo' = 1
GetStep == pc = "write" /\ lineNo = 1 /\ lineNo' = 2

\* The number a JSON number stands for, as mant * 2^exp with mant odd or zero
NumberOf(json) ==
    IF "f" \in DOMAIN json THEN json.f
    ELSE IF json.n >= 0 THEN normal(json.n, 0)
    ELSE F64(- normal(- json.n, 0).mant, normal(- json.n, 0).exp)

\* Two JSON values are the same value: numbers by the number they stand for,
\* objects whatever the order of their keys
RECURSIVE SameJson(_, _)
SameJson(a, b) ==
    /\ a.t = b.t
    /\ CASE a.t = "num" -> NumberOf(a) = NumberOf(b)
         [] a.t = "arr" -> /\ Len(a.a) = Len(b.a)
                           /\ \A i \in DOMAIN a.a : SameJson(a.a[i], b.a[i])
         [] a.t = "obj" -> /\ DOMAIN a.m = DOMAIN b.m
                           /\ \A k \in DOMAIN a.m : SameJson(a.m[k], b.m[k])
         [] OTHER -> a = b

C27_RoundTripIdentity ==
    [][/\ ( /\ PutStep
            /\ json_to_value(ArgumentOf(last'.val, "value")).ok )
          => SameJson(value_to_json(json_to_value(ArgumentOf(last'.val, "value")).val),
                      ArgumentOf(last'.val, "value"))
       /\ ( /\ GetStep
            /\ issued # <<>>
            /\ issued[1].res.ok )
          => /\ response'.val.result.some
             /\ ResultText'.t = "obj"
             /\ SameJson(ResultText'.m["value"], ArgumentOf(last.val, "value"))]_vars

\* The put of the integer I64_MAX + 2 was accepted and the key holds the
\* float 2^(IntBits - 1), which a get returns.
C27_Witness ==
    /\ pc = "write"
    /\ lineNo = 1
    /\ ArgumentOf(last.val, "value") = JNum(I64_MAX + 2)
    /\ issued[1].res.ok
    /\ response.val.result.some
    /\ ReadOf(engine, "default", "default", "k").m["value"] = JFloat(F64(1, IntBits - 1))

(***************************************************************************)
(* C28.  A JSON number that is neither an integer of the i64 range nor     *)
(* exactly an f64 is rejected by json_to_value with the invalid-argument   *)
(* error "Number out of range": a strata_kv_put of it is answered with     *)
(* that error, and nothing is sent to the engine or stored.                *)
(***************************************************************************)
\* The integer n is an f64: a significand of MantissaBits bits and a power
\* of two
ExactF64(n) ==
    \E m \in 0..(Pow2(MantissaBits) - 1), e \in 0..IntBits : m * Pow2(e) = n

\* The JSON number has neither an exact i64 nor an exact f64
Inexact(json) ==
    /\ json.t = "num"
    /\ "n" \in DOMAIN json
    /\ json.n > I64_MAX
    /\ ~ ExactF64(json.n)

C28_InexactNumberRejected ==
    [][( /\ PutStep
         /\ Inexact(ArgumentOf(last'.val, "value")) )
       => /\ json_to_value(ArgumentOf(last'.val, "value"))
                = Err(InvalidArg("value", "Number out of range"))
          /\ issued' = <<>>
          /\ engine' = engine
          /\ response'.val.error.some
          /\ response'.val.error.val.code = INVALID_PARAMS
          /\ response'.val.error.val.message = "invalid argument"]_vars

\* The put of the integer U64_MAX, which no f64 is, was sent to the engine
\* as the float 2^IntBits and answered with a version.
C28_Witness ==
    /\ pc = "write"
    /\ lineNo = 1
    /\ ArgumentOf(last.val, "value") = JNum(U64_MAX)
    /\ Inexact(JNum(U64_MAX))
    /\ Len(issued) = 1
    /\ issued[1].cmd.op = "KvPut"
    /\ issued[1].cmd.value = VFloat(F64(1, IntBits))
    /\ issued[1].res.ok
    /\ response.val.result.some
    /\ ~ response.val.error.some

(***************************************************************************)
(* C29.  A listing (strata_kv_list, strata_json_list, strata_event_list)   *)
(* with limit N that the engine answered with a list returns at most N     *)
(* items, and its result has a `cursor` exactly when items remain beyond   *)
(* the page; a `cursor` that is present is not null.                       *)
(***************************************************************************)
JsonList == <<"strata_", "json_", "list">>
EventList == <<"strata_", "event_", "list">>

\* The items of a listing result, and whether it carries a cursor
PageOf(result) == IF result.t = "arr" THEN result.a ELSE result.m["keys"].a
HasCursor(result) == result.t = "obj" /\ "cursor" \in DOMAIN result.m

\* The keys or documents the listing command cmd ranges over, in order
ListedBy(eng, cmd) ==
    listed(IF cmd.op = "KvList"
           THEN {c.key : c \in {d \in eng.kv : /\ d.branch = cmd.branch.val
                                               /\ d.space = cmd.space.val}}
           ELSE docs_of(eng.docs, cmd),
           cmd.prefix, cmd.cursor)

C29_CursorIffMore ==
    [][( /\ HandledStep
         /\ IsCallIn(last'.val, {KvList, JsonList, EventList})
         /\ issued' # <<>>
         /\ issued'[1].res.ok
         /\ issued'[1].res.val.kind \in {"Keys", "JsonListResult"} )
       => /\ response'.val.result.some
          /\ ResultText'.t \in {"arr", "obj"}
          /\ issued'[1].cmd.limit.some
                => Len(PageOf(ResultText')) <= issued'[1].cmd.limit.val
          /\ HasCursor(ResultText')
                <=> Len(PageOf(ResultText')) < Len(ListedBy(engine, issued'[1].cmd))
          /\ HasCursor(ResultText') => ResultText'.m["cursor"].t = "str"]_vars

\* strata_kv_list with limit 1 over the two keys of the database returned
\* the first key as a bare array: one key remains and there is no cursor.
C29_Witness ==
    /\ pc = "write"
    /\ IsCallOf(last.val, KvList)
    /\ ArgumentOf(last.val, "limit") = JNum(1)
    /\ ArgumentOf(last.val, "prefix").t = "absent"
    /\ engine = Strata_open_read_only
    /\ issued[1].res = Ok(Keys(<<"test">>))
    /\ response.val.result.some
    /\ ResultText = JArr(<<JStr("test")>>)
    /\ ~ HasCursor(ResultText)

(***************************************************************************)
(* C30.  Every descriptor of the catalog of ToolRegistry::new has a name   *)
(* that is not empty and begins with "strata_", a description that is not  *)
(* empty and an input schema that is a JSON object of type "object", and   *)
(* no two descriptors have the same name; the answer to tools/list, in     *)
(* whatever state the session is, is that catalog, and its entries have    *)
(* the same properties.                                                    *)
(***************************************************************************)
\* A descriptor
WellFormedToolDef(tool) ==
    /\ Len(tool.name) > 0
    /\ tool.name[1] = "strata_"
    /\ \A i \in DOMAIN tool.name : tool.name[i] # ""
    /\ tool.description # ""
    /\ tool.inputSchema.t = "obj"
    /\ "type" \in DOMAIN tool.inputSchema.m
    /\ tool.inputSchema.m["type"] = JStr("object")

\* A list of descriptors
CatalogInvariant(tools) ==
    /\ \A i \in DOMAIN tools : WellFormedToolDef(tools[i])
    /\ \A i, j \in DOMAIN tools : tools[i].name = tools[j].name => i = j

\* The catalog of ToolRegistry::new
RegistryInvariant == CatalogInvariant(ToolRegistry_new)

\* An entry of the `tools` of a tools/list result, as the descriptor it shows
ShownToolDef(entry) ==
    [name |-> entry.m["name"].s, description |-> entry.m["description"].s,
     inputSchema |-> entry.m["inputSchema"]]

\* The request handled is a tools/list
IsToolsList(text) == TextMember(text, "method") = JStr("tools/list")

C30_CatalogInvariants ==
    /\ RegistryInvariant
    /\ ( /\ pc = "write"
         /\ last.some
         /\ IsToolsList(last.val) )
       => /\ response.val.result.some
          /\ ~ response.val.error.some
          /\ response.val.result.val.t = "obj"
          /\ DOMAIN response.val.result.val.m = {"tools"}
          /\ response.val.result.val.m["tools"].t = "arr"
          /\ \A i \in DOMAIN response.val.result.val.m["tools"].a :
                /\ response.val.result.val.m["tools"].a[i].t = "obj"
                /\ DOMAIN response.val.result.val.m["tools"].a[i].m
                      = {"name", "description", "inputSchema"}
                /\ response.val.result.val.m["tools"].a[i].m["name"].t = "str"
                /\ response.val.result.val.m["tools"].a[i].m["description"].t = "str"
          /\ [i \in DOMAIN response.val.result.val.m["tools"].a |->
                 ShownToolDef(response.val.result.val.m["tools"].a[i])]
                = ToolRegistry_new

\* tools/list was answered with the 62 descriptors on the branch "feature"
\* inside a transaction, after four requests.
C30_Witness ==
    /\ pc = "write"
    /\ last.some
    /\ IsToolsList(last.val)
    /\ lineNo = MaxPrepare + 1
    /\ session.branch = "feature"
    /\ session.in_transaction
    /\ response.val.result.some
    /\ Len(response.val.result.val.m["tools"].a) = Len(ToolRegistry_new)
    /\ Len(ToolRegistry_new) > 60
    /\ response.val.result.val.m["tools"].a[1].m["name"] = JStr(<<"strata_", "db_", "ping">>)
    /\ response.val.result.val.m["tools"].a[1].m["description"].s # ""

(***************************************************************************)
(* C31: each field of the session context has one writer.                  *)
(***************************************************************************)
\* The world a session operation starts from in the current state, with the
\* outcome `pick` for the engine call it makes
WorldOf(pick) ==
    [session |-> session, engine |-> engine, issued |-> <<>>, picks |-> <<pick>>]

SameBut(after, field) ==
    \A f \in DOMAIN session : f # field => after[f] = session[f]

\* Commands McpSession::execute is given
ExecutedCommands ==
    {[op |-> "TxnBegin", branch |-> Some(b), options |-> None] : b \in {"default", "feature"}}
    \cup {[op |-> "TxnCommit"], [op |-> "TxnRollback"], [op |-> "TxnIsActive"],
          [op |-> "Ping"], [op |-> "BranchDelete", branch |-> "feature"],
          [op |-> "BranchExists", branch |-> "feature"]}

SessionNames == {"default", "feature", "s1", "nowhere"}

\* The outputs that report a change of the transaction state
TxnOutputs == {"TxnBegun", "TxnCommitted", "TxnAborted"}

\* The session operations applied to the state a request is read in
OperationsFrame ==
    \A pick \in Picks :
        /\ \A name \in SessionNames :
              /\ SameBut(switch_branch(WorldOf(pick), name).w.session, "branch")
              /\ SameBut(switch_space(WorldOf(pick), name).session, "space")
              /\ fork_branch(WorldOf(pick), name).w.session = session
              /\ merge_branch(WorldOf(pick), name, "Strict").w.session = session
              /\ diff_branches(WorldOf(pick), name, "default").w.session = session
        /\ \A cmd \in ExecutedCommands :
              SameBut(execute(WorldOf(pick), cmd).w.session, "in_transaction")
        /\ branch_id(WorldOf(pick)) = Some(session.branch)
        /\ space_id(WorldOf(pick)) = Some(session.space)

\* The requests handled: what changed names the tool that changed it
RequestsFrame ==
    /\ session'.branch # session.branch
         => IsCallOf(last'.val, <<"strata_", "branch_", "switch">>)
    /\ session'.space # session.space
         => IsCallOf(last'.val, <<"strata_", "space_", "switch">>)
    /\ session'.in_transaction # session.in_transaction
         => \E i \in DOMAIN issued' : /\ issued'[i].res.ok
                                      /\ issued'[i].res.val.kind \in TxnOutputs
    /\ IsCallOf(last'.val, <<"strata_", "branch_", "switch">>) => SameBut(session', "branch")
    /\ IsCallOf(last'.val, <<"strata_", "space_", "switch">>) => SameBut(session', "space")
    /\ IsCallIn(last'.val, {<<"strata_", "branch_", op>> : op \in {"fork", "diff", "merge"}})
         => session' = session

\* C31: switch_branch changes at most the current branch, switch_space only
\* the current space, execute at most the transaction flag; fork_branch,
\* diff_branches, merge_branch and the accessors change no field; and no
\* request changes a field through anything else
C31_SingleWriter ==
    /\ [](pc = "read" => OperationsFrame)
    /\ [][HandledStep => RequestsFrame]_vars

\* A space switch handled on another branch than the default one, inside a
\* transaction
C31_Witness ==
    /\ pc = "write"
    /\ last.some
    /\ IsCallOf(last.val, <<"strata_", "space_", "switch">>)
    /\ session.branch = "feature"
    /\ session.space = "s1"
    /\ session.in_transaction

(***************************************************************************)
(* C32: the commands of the handlers are addressed by the session.         *)
(***************************************************************************)
\* The commands built with `branch: session.branch_id()` and
\* `space: session.space_id()`
ScopedOps ==
    {"KvPut", "KvGet", "KvDelete", "KvList", "KvGetv",
     "StateSet", "StateGet", "StateDelete", "StateInit", "StateCas", "StateList",
     "StateGetv", "EventAppend", "EventGet", "EventGetByType", "EventLen",
     "JsonSet", "JsonGet", "JsonDelete", "JsonList", "JsonGetv",
     "VectorUpsert", "VectorGet", "VectorDelete", "VectorSearch",
     "VectorCreateCollection", "VectorDeleteCollection", "VectorListCollections",
     "VectorCollectionStats", "VectorBatchUpsert", "Search"}

\* The commands built with `branch: session.branch_id()` only
BranchedOps ==
    {"TimeRange", "SpaceList", "SpaceCreate", "SpaceDelete", "TxnBegin", "RetentionApply"}

\* The command is addressed to the branch and the space of session s
AddressedBy(cmd, s) ==
    /\ cmd.op \in ScopedOps \cup BranchedOps => cmd.branch = Some(s.branch)
    /\ cmd.op \in ScopedOps => cmd.space = Some(s.space)

\* The response is a success
IsSuccess(resp) == resp.some /\ resp.val.result.some /\ ~ resp.val.error.some

\* C32: every command a handler addresses to a branch or a space carries the
\* session's current branch and space; a successful strata_branch_switch or
\* strata_space_switch makes its argument the current one, so the commands
\* after it are addressed there; the commands of one batch are all
\* addressed to the same branch and space
C32_CommandsAddressedBySession ==
    [][HandledStep =>
         /\ \A i \in DOMAIN issued' : /\ AddressedBy(issued'[i].cmd, session)
                                      /\ AddressedBy(issued'[i].cmd, session')
         /\ IsCallOf(last'.val, <<"strata_", "branch_", "switch">>) /\ IsSuccess(response')
              => session'.branch = ArgumentOf(last'.val, "branch").s
         /\ IsCallOf(last'.val, <<"strata_", "space_", "switch">>) /\ IsSuccess(response')
              => session'.space = ArgumentOf(last'.val, "space").s
         /\ IsCallIn(last'.val, {<<"strata_", "kv_", "put">>, <<"strata_", "kv_", "get">>})
            /\ IsSuccess(response')
              => /\ Len(issued') = 1
                 /\ issued'[1].cmd.op \in {"KvPut", "KvGet"}]_vars

\* A batch of two items handled after a switch to another branch and another
\* space: two commands were issued
C32_Witness ==
    /\ pc = "write"
    /\ last.some
    /\ IsCallOf(last.val, <<"strata_", "kv_", "put_many">>)
    /\ Len(issued) = 2
    /\ session.branch = "feature"
    /\ session.space = "s1"
    /\ issued[2].cmd.space = Some("s1")

(***************************************************************************)
(* C33: the transaction flag of the session and the transaction state of   *)
(* the engine session.                                                     *)
(***************************************************************************)
\* C33: after every tool call, successful or failed, the session's
\* in_transaction flag equals the transaction state of the engine session
\* (what strata_txn_active reports), also when strata_txn_begin,
\* strata_txn_commit or strata_txn_rollback returned an engine error
C33_FlagEqualsEngineState ==
    pc = "write" /\ last.some /\ IsToolsCall(last.val)
        => session.in_transaction = engine.txn

\* A commit was refused with a conflict: the engine has ended the
\* transaction, the flag of the session still says it is active
C33_Witness ==
    /\ pc = "write"
    /\ last.some
    /\ IsCallOf(last.val, <<"strata_", "txn_", "commit">>)
    /\ issued = <<[cmd |-> [op |-> "TxnCommit"], res |-> Err(StrataError("TXN_CONFLICT"))]>>
    /\ session.in_transaction
    /\ ~ engine.txn

(***************************************************************************)
(* C34: the current branch and the branches of the engine.                 *)
(***************************************************************************)
\* C34: in every state reachable from a fresh session on a database that
\* holds the branch "default", the current branch of the session names a
\* branch that exists in the engine
C34_CurrentBranchExists == session.branch \in engine.branches

\* The branch the session is on was deleted by strata_branch_delete, which
\* the engine accepted
C34_Witness ==
    /\ pc = "write"
    /\ last.some
    /\ IsCallOf(last.val, <<"strata_", "branch_", "delete">>)
    /\ issued = <<[cmd |-> [op |-> "BranchDelete", branch |-> "feature"], res |-> Ok(Unit)]>>
    /\ IsSuccess(response)
    /\ session.branch = "feature"
    /\ "feature" \notin engine.branches

(***************************************************************************)
(* C35: the arguments are extracted before the command is issued.          *)
(***************************************************************************)
\* The messages of McpError::MissingArg and McpError::InvalidArg
ArgumentMessages == {"missing required argument", "invalid argument"}

\* The response is the error of a missing or invalid argument
IsArgumentError(resp) ==
    /\ resp.some
    /\ ~ resp.val.result.some
    /\ resp.val.error.some
    /\ resp.val.error.val.code = INVALID_PARAMS
    /\ resp.val.error.val.message \in ArgumentMessages

\* C35: a call of a tool that issues a single engine command, with a
\* required argument missing or of a type that is of no use, is answered
\* with the missing / invalid argument error, issues no engine command and
\* leaves the database and the session context as they were
C35_ArgumentsBeforeCommand ==
    [][HandledStep /\ last'.val \in MissingCalls \cup UnusableCalls
         => /\ IsArgumentError(response')
            /\ issued' = <<>>
            /\ engine' = engine
            /\ session' = session]_vars

\* strata_kv_put without `value`, on another branch, inside a transaction
C35_Witness ==
    /\ pc = "write"
    /\ last = Some(Call(<<"strata_", "kv_", "put">>, Without(RichArgs, "value")))
    /\ IsArgumentError(response)
    /\ issued = <<>>
    /\ session.branch = "feature"
    /\ session.in_transaction

(***************************************************************************)
(* C36: the id of a response.                                              *)
(***************************************************************************)
\* C36: the response to a request that was parsed carries the id of that
\* request, whether it is a success or an error of any kind; it has no id
\* exactly when the request has none (absent or null) or the line could not
\* be parsed
C36_ResponseCarriesRequestId ==
    [][HandledStep =>
         /\ from_str(last'.val).ok => response'.val.id = RequestId(last'.val)
         /\ ~ from_str(last'.val).ok => response'.val.id = None
         /\ response'.val.id = None
              => ~ from_str(last'.val).ok \/ RequestId(last'.val) = None]_vars

\* A tool call under a string id that the engine failed: the error carries
\* the id
C36_Witness ==
    /\ pc = "write"
    /\ last.some
    /\ IsCallOf(last.val, <<"strata_", "kv_", "get">>)
    /\ RequestId(last.val) = Some(JStr("a"))
    /\ Len(issued) = 1
    /\ ~ issued[1].res.ok
    /\ response.val.error.some
    /\ response.val.id = Some(JStr("a"))

(***************************************************************************)
(* C37: the flag `initialized` gates nothing.                              *)
(***************************************************************************)
\* The server in the current state, its flag replaced by `flag`, before a
\* request whose engine calls have the outcomes `picks`
ServerWith(flag, picks) ==
    [initialized |-> flag,
     w |-> [session |-> session, engine |-> engine, issued |-> <<>>, picks |-> picks]]

\* Two handlings of the line `text`, one by a server that is not initialized
\* and one by a server that is: the same response, the same session, engine
\* and commands; the flag is set afterwards in the first one only by an
\* initialize request, which changes nothing else
SameHandling(before, after, text) ==
    /\ before.resp = after.resp
    /\ before.s.w = after.s.w
    /\ after.s.initialized
    /\ before.s.initialized <=> IsInitialize(text)
    /\ IsInitialize(text) => /\ before.s.w.session = session
                             /\ before.s.w.engine = engine
                             /\ before.s.w.issued = <<>>

FlagGatesNothing ==
    \A text \in Texts : \A picks \in PickSeqs(text) :
        SameHandling(handle_line(ServerWith(FALSE, picks), text),
                     handle_line(ServerWith(TRUE, picks), text), text)

\* C37: in every state a line is read in, every request is handled the same
\* way by a server that is initialized and by one that is not (response,
\* session context, engine and commands issued), an initialize request
\* changes nothing but the flag, and the flag never returns to false: two
\* runs that differ only in initialize requests answer the other requests
\* alike and reach the same session context
C37_InitializedGatesNothing ==
    /\ [](pc = "read" => FlagGatesNothing)
    /\ [][initialized => initialized']_vars

\* A tool call was dispatched and changed the session context on a server
\* that was never initialized
C37_Witness ==
    /\ pc = "write"
    /\ ~ initialized
    /\ last.some
    /\ IsCallOf(last.val, <<"strata_", "space_", "switch">>)
    /\ IsSuccess(response)
    /\ session.space = "s1"

(***************************************************************************)
(* C38: fork and merge work on the current branch and leave it current.    *)
(***************************************************************************)
\* C38: strata_branch_fork forks the branch the session is on at the time
\* of the call, strata_branch_merge merges the named source into that
\* branch, and neither changes the current branch: after a fork the session
\* is still on the source branch
C38_ForkAndMergeUseCurrentBranch ==
    [][HandledStep =>
         /\ IsCallOf(last'.val, <<"strata_", "branch_", "fork">>)
              => /\ session' = session
                 /\ Len(issued') <= 1
                 /\ Len(issued') = 0 <=> ArgumentOf(last'.val, "destination").t # "str"
                 /\ \A i \in DOMAIN issued' :
                       /\ issued'[i].cmd =
                             [op |-> "BranchFork", source |-> session.branch,
                              destination |-> ArgumentOf(last'.val, "destination").s]
                       /\ issued'[i].res.ok
                            => /\ issued'[i].res.val.source = session.branch
                               /\ engine'.branches = engine.branches
                                     \cup {ArgumentOf(last'.val, "destination").s}
                               /\ IsSuccess(response')
         /\ IsCallOf(last'.val, <<"strata_", "branch_", "merge">>)
              => /\ session' = session
                 /\ Len(issued') <= 1
                 /\ \A i \in DOMAIN issued' :
                       /\ issued'[i].cmd.op = "BranchMerge"
                       /\ issued'[i].cmd.source = ArgumentOf(last'.val, "source").s
                       /\ issued'[i].cmd.target = session.branch
                       /\ issued'[i].res.ok => IsSuccess(response')]_vars

\* A fork handled on another branch than the default one: the new branch
\* exists and the session is still on the branch that was forked
C38_Witness ==
    /\ pc = "write"
    /\ last.some
    /\ IsCallOf(last.val, <<"strata_", "branch_", "fork">>)
    /\ Len(issued) = 1
    /\ issued[1].res = Ok(ForkInfo("feature", "auto"))
    /\ session.branch = "feature"
    /\ "auto" \in engine.branches

(***************************************************************************)
(* C39: what can reach the engine and the session.                         *)
(***************************************************************************)
\* The line is a request of the method `method`, of version 2.0
IsMethod(text, method) ==
    /\ TextMember(text, "jsonrpc") = JStr("2.0")
    /\ TextMember(text, "method") = JStr(method)

\* Nothing was sent to the engine, and session and engine are as they were
Untouched == issued' = <<>> /\ session' = session /\ engine' = engine

\* C39: initialize, initialized, ping and tools/list, and every line that
\* is rejected before a tool is dispatched (unparsable, another version,
\* unknown method, tools/call without a params object, a name or usable
\* arguments) issue no engine command and leave the session context and
\* the engine unchanged; only a dispatched tools/call reaches them
C39_OnlyDispatchedCallsReachEngine ==
    [][HandledStep =>
         /\ ~ IsDispatched(last'.val) => Untouched
         /\ \A m \in {"initialize", "initialized", "ping", "tools/list"} :
               IsMethod(last'.val, m) => Untouched /\ IsSuccess(response')
         /\ ~ Untouched => IsDispatched(last'.val)]_vars

\* A tools/call of another version that names strata_txn_begin, handled
\* outside a transaction: it was rejected and no transaction was begun
C39_Witness ==
    /\ pc = "write"
    /\ last.some
    /\ TextMember(last.val, "jsonrpc") = JStr("1.0")
    /\ TextMember(last.val, "method") = JStr("tools/call")
    /\ ParamsMember(last.val, "name") = JStr(<<"strata_", "txn_", "begin">>)
    /\ response.val.error.some
    /\ issued = <<>>
    /\ session.space = "s1"
    /\ ~ session.in_transaction
    /\ ~ engine.txn

(***************************************************************************)
(* C40: run and run_sync.                                                  *)
(***************************************************************************)
\* C40: given the same input lines, the same outcomes of the engine calls
\* and the same failures of the transport, run and run_sync have emitted the
\* same response lines, hold the same session context, engine state and
\* flag, and have stopped under the same conditions with the same result,
\* at every point of the two loops (run being between its two write_all
\* calls where run_sync is before its writeln!)
C40_RunEquivalentToRunSync ==
    /\ async_run.pc = pc \/ (async_run.pc = "newline" /\ pc = "write")
    /\ async_run.exit = exit
    /\ async_run.initialized = initialized
    /\ async_run.session = session
    /\ async_run.engine = engine
    /\ async_run.response = response
    /\ lines_in(async_run.buf) = buf
    /\ async_run.out = out

\* Both loops have answered two lines, the first of which began a
\* transaction, and have stopped at the end of the input
C40_Witness ==
    /\ pc = "done"
    /\ async_run.pc = "done"
    /\ async_run.exit = Some(Ok(Unit))
    /\ Len(async_run.out) = 2
    /\ async_run.session.in_transaction
    /\ async_run.engine.txn

====
